---- MODULE Spec2Model ----
(***************************************************************************)
(* A model of the Aseprite decoder of assu-parser: the frame assembler     *)
(* (AsepriteFile::new), the chunk decoders it depends on (palette, tags,   *)
(* animation direction, raw frame) and the lookup helpers of the wrappers. *)
(*                                                                         *)
(* The chunk lists of file.frames are read as the assembler's loops        *)
(* advance: rawFrames holds the part of the file read so far, and a chunk  *)
(* not yet read is unconstrained.  Every chunk carries its place in the    *)
(* file (src = <<frame, position>>), which stands for the borrowed slices  *)
(* (&'a str, &'a [u8]) the decoded chunks hold.                            *)
(***************************************************************************)
EXTENDS Integers, Sequences, FiniteSets, TLC

(* ------------------------------ bounds --------------------------------- *)
\* frames of a file
MaxFrames == 2
\* chunks of a file, over all its frames
MaxChunks == 3
\* largest layer index a cel chunk names
MaxLayer == 1
\* largest number of tags one Tags chunk declares
MaxTags == 2
\* largest value of a dword field (a narrow stand-in for 2^32 - 1)
DwordMax == 4

\* largest from_frame / to_frame of a tag
MaxTagFrame == 1
\* largest value of a byte (u8)
ByteMax == 255

\* The sides of an image run from 0 to MaxSide pixels.
MaxSide == 1
\* A zlib stream inflates to at most MaxOut bytes.
MaxOut == 5

\* An indexed image has up to MaxPixels pixels.
MaxPixels == 2
\* The palette chunks populate the indices below a length of up to MaxPopulated.
MaxPopulated == 2

\* A frame handed to the compositing holds up to MaxCels cels.
MaxCels == 2

(* ------------------------------ chunks --------------------------------- *)
NoSrc == <<>>
NoText == "None"

\* One shape for every chunk; a kind reads only its own fields.
Blank ==
    [kind |-> "Unsupported", src |-> NoSrc, text |-> NoText,
     layer_index |-> 0, content |-> "None", frame_position |-> 0,
     tags |-> <<>>, size |-> 0, first_index |-> 0, last_index |-> 0,
     entries |-> <<>>, inflates |-> TRUE, layer_type |-> "Normal",
     visible |-> TRUE, opacity |-> 255, blend_mode |-> "Normal",
     x |-> 0, y |-> 0, width |-> 0, height |-> 0, pixels |-> <<>>]

\* What Peekable::peek sees past the last chunk of a frame.
EndOfChunks == [Blank EXCEPT !.kind = "EndOfChunks"]

\* UserDataChunk::default(): no text, no place in the file.
DefaultUserData == [Blank EXCEPT !.kind = "UserData"]

LayerChunk == [Blank EXCEPT !.kind = "Layer"]
\* A Layer chunk of layer type t: "Normal", "Group" or "Tilemap".
LayerOfType(t) == [LayerChunk EXCEPT !.layer_type = t]
UserDataChunk == [Blank EXCEPT !.kind = "UserData", !.text = "ud"]
ColorProfileChunk == [Blank EXCEPT !.kind = "ColorProfile"]
\* Option::None of color_profile
NoProfile == [Blank EXCEPT !.kind = "None"]
SliceChunk == [Blank EXCEPT !.kind = "Slice"]
CelChunk(layer, content, link) ==
    [Blank EXCEPT !.kind = "Cel", !.layer_index = layer, !.content = content,
                  !.frame_position = link]

\* Chunk::is_user_data
IsUserData(c) == c.kind = "UserData"

\* The chunk as read at place p of frame f (f counts from 0, p from 1).
Stamp(c, f, p) == [c EXCEPT !.src = <<f, p>>]

(* ------------------------------ state ---------------------------------- *)
VARIABLES
    pc,            \* "frames": at `for raw_frame`, "chunks": at `while let`, "done"
    status,        \* "running", "ok" (Ok(Self)), "err" (Err(..)), "panic"
    error,         \* the error of status "err" / the panic's cause
    header,        \* file.header: the colour depth
    rawFrames,     \* file.frames[i].chunks, as far as read
    pos,           \* chunks of the current frame that chunk_it has yielded
    closed,        \* chunk_it has seen the end of the current frame
    chunk,         \* the chunk bound by the running `while let Some(chunk)`
    color_profile, \* Option<ColorProfileChunk>
    palette,       \* palette.colors
    layers,        \* Vec<Layer>
    frames,        \* Vec<Frame>
    images,        \* Vec<Image>
    tags,          \* Vec<Tag>
    image_map,     \* (frame index, layer index) -> image index
    byte,          \* the byte handed to AnimationDirection::from
    animation_direction, \* what AnimationDirection::from returned
    frame_input,   \* the bytes handed to parse_rawframe, field by field
    frame_result,  \* what parse_rawframe returned
    call,          \* the function called on a value of its own, and its arguments
    result         \* what that call returned

asmVars == <<pc, status, error, header, rawFrames, pos, closed, chunk,
             color_profile, palette, layers, frames, images, tags, image_map>>

\* The state of the decoders run on their own.
parseVars == <<byte, animation_direction, frame_input, frame_result,
               call, result>>

vars == <<asmVars, parseVars>>

EmptyMap == [k \in {} |-> 0]

\* No decoder has been run on its own.
NotCalled == <<"not called">>
NoFrameInput ==
    [size_fits |-> FALSE, magic |-> 0, word_count |-> 0, duration |-> 0,
     dword_count |-> 0, body |-> <<>>]
FrameNotCalled ==
    [ok |-> FALSE, err |-> NotCalled, duration |-> 0, chunks |-> <<>>]

\* No function has been called on a value of its own.
NoCall == [fn |-> "none"]
NoResult == [res |-> "none"]
CallIdle ==
    /\ call = NoCall
    /\ result = NoResult

ParseIdle ==
    /\ byte = 0
    /\ animation_direction = NotCalled
    /\ frame_input = NoFrameInput
    /\ frame_result = FrameNotCalled
    /\ CallIdle

\* file.header.width and file.header.height: the canvas.
CanvasSize == [width |-> 2, height |-> 1]

\* The locals of AsepriteFile::new at its first loop (at = "frames"), or of an
\* assembler that is not run (at = "idle").
AsmStart(at) ==
    /\ pc = at
    /\ status = "running"
    /\ error = <<"none">>
    /\ header \in [color_depth : IF at = "idle" THEN {"Rgba"}
                                 ELSE {"Rgba", "Indexed"},
                    width : {CanvasSize.width}, height : {CanvasSize.height}]
    /\ rawFrames = <<>>
    /\ pos = 0
    /\ closed = FALSE
    /\ chunk = Blank
    /\ color_profile = NoProfile
    /\ palette = <<>>
    /\ layers = <<>>
    /\ frames = <<>>
    /\ images = <<>>
    /\ tags = <<>>
    /\ image_map = EmptyMap

InitAsm == AsmStart("frames") /\ ParseIdle

(* --------------------------- the chunk iterator ------------------------ *)
RECURSIVE TotalLen(_)
TotalLen(fs) == IF fs = <<>> THEN 0 ELSE Len(Head(fs)) + TotalLen(Tail(fs))

\* The iterator over the current frame's chunks: [raw, pos, closed].
It == [raw |-> rawFrames, pos |-> pos, closed |-> closed]
CurOf(it) == it.raw[Len(it.raw)]

\* The part of the file read so far holds a chunk of kind k.
HasKind(raw, k) ==
    \E f \in 1..Len(raw) : \E p \in 1..Len(raw[f]) : raw[f][p].kind = k

\* What the iterator can produce next: the chunk already peeked, the end of
\* the frame, or a chunk read from the file now.  A names the files looked
\* at: their chunks come from A.chunks, they hold at most A.max of them and
\* at most one of each kind in A.once.
Upcoming(it, A) ==
    IF Len(CurOf(it)) > it.pos THEN {CurOf(it)[it.pos + 1]}
    ELSE IF it.closed THEN {EndOfChunks}
    ELSE {EndOfChunks} \cup
         (IF TotalLen(it.raw) < A.max
          THEN LET used == {k \in A.once : HasKind(it.raw, k)}
               IN {Stamp(c, Len(it.raw) - 1, it.pos + 1) :
                     c \in {d \in A.chunks : d.kind \notin used}}
          ELSE {})

\* The iterator after it has looked at nx without yielding it.
Peeked(it, nx) ==
    IF Len(CurOf(it)) > it.pos THEN it
    ELSE IF nx = EndOfChunks THEN [it EXCEPT !.closed = TRUE]
    ELSE [it EXCEPT !.raw[Len(it.raw)] = Append(@, nx)]

\* The iterator after it has yielded the chunk it looked at.
Yielded(it) == [it EXCEPT !.pos = @ + 1]

\* A slip: chunk_it.next() where next_if belongs, so that a chunk that is
\* not User Data is taken off the stream as well.
NextIfTakesAny(it, A) ==
    { IF nx = EndOfChunks
      THEN [it |-> Peeked(it, nx), user_data |-> DefaultUserData]
      ELSE [it |-> Yielded(Peeked(it, nx)),
            user_data |-> IF IsUserData(nx) THEN nx ELSE DefaultUserData]
      : nx \in Upcoming(it, A) }

\* chunk_it.next_if(Chunk::is_user_data): every outcome the file allows, as
\* the iterator afterwards and the user data the entity gets.
NextIf(it, A) ==
    { IF IsUserData(nx)
      THEN [it |-> Yielded(Peeked(it, nx)), user_data |-> nx]
      ELSE [it |-> Peeked(it, nx), user_data |-> DefaultUserData]
      : nx \in Upcoming(it, A) }

SetIt(it) ==
    /\ rawFrames' = it.raw
    /\ pos' = it.pos
    /\ closed' = it.closed

Running == pc = "chunks" /\ status = "running"

\* chunk_it.next() yields c and leaves the iterator as NextIt(c).
Yields(c, A) == c # EndOfChunks
NextIt(c) == Yielded(Peeked(It, c))

\* A return or a panic out of the loops: nothing runs afterwards.
Stop(st, why) ==
    /\ pc' = "done"
    /\ status' = st
    /\ error' = why

(* --------------------------- chunk decoders ---------------------------- *)
\* #[derive(FromRepr)]: from_repr(d) gives the variant of discriminant d, a
\* variant's data filled with Default::default(); From<Byte> falls back to
\* Unknown(byte) when from_repr gives None.
FromRepr(d) ==
    CASE d = 0 -> [some |-> TRUE, v |-> <<"Forward">>]
      [] d = 1 -> [some |-> TRUE, v |-> <<"Reverse">>]
      [] d = 2 -> [some |-> TRUE, v |-> <<"PingPong">>]
      [] d = 3 -> [some |-> TRUE, v |-> <<"PingPongReverse">>]
      [] d = 4 -> [some |-> TRUE, v |-> <<"Unknown", 0>>]
      [] OTHER -> [some |-> FALSE, v |-> <<>>]

AnimationDirectionFrom(b) ==
    IF FromRepr(b).some THEN FromRepr(b).v ELSE <<"Unknown", b>>

\* A tag as it stands in the file: from_frame, to_frame, direction byte,
\* repeat, name.
RawTag(from, to, dir, name) ==
    [from_frame |-> from, to_frame |-> to, direction |-> dir,
     animation_repeat |-> 0, name |-> name]

\* A slip: the frame range goes unchecked.
FrameRangeUnchecked(from, to) == TRUE

\* The range parse_tag lets through: not from_frame > to_frame.
FrameRangeOk(from, to) == ~(from > to)

\* parse_tag
ParseTag(raw) ==
    IF ~FrameRangeOk(raw.from_frame, raw.to_frame)
    THEN [ok |-> FALSE,
          err |-> <<"InvalidFrameRange", raw.from_frame, raw.to_frame>>,
          tag |-> <<>>]
    ELSE [ok |-> TRUE, err |-> <<>>,
          tag |-> [frames |-> <<raw.from_frame, raw.to_frame>>,
                   animation_direction |-> AnimationDirectionFrom(raw.direction),
                   animation_repeat |-> raw.animation_repeat,
                   name |-> raw.name]]

\* count(parse_tag, number_of_tags): the first failure is the result.
RECURSIVE CountParseTag(_, _)
CountParseTag(raws, acc) ==
    IF raws = <<>> THEN [ok |-> TRUE, err |-> <<>>, tags |-> acc]
    ELSE LET r == ParseTag(Head(raws))
         IN IF r.ok THEN CountParseTag(Tail(raws), Append(acc, r.tag))
            ELSE [ok |-> FALSE, err |-> r.err, tags |-> <<>>]

\* parse_tags_chunk
ParseTagsChunk(c) == CountParseTag(c.tags, <<>>)

(* palette chunk *)
\* image::Rgba::zeroed()
ZeroColor == <<"zero">>

\* The error nom's verify makes of ErrorKind::Verify through
\* ParseError::from_error_kind.
VerifyError == <<"InvalidPaletteRange">>

\* u32 `last_ind - first_color_index + 1`: a sum past the width panics in a
\* build with overflow checks and wraps in one without.
RangeLen(first, last) ==
    IF last - first + 1 > DwordMax
    THEN {[panic |-> TRUE, v |-> 0],
          [panic |-> FALSE, v |-> (last - first + 1) % (DwordMax + 1)]}
    ELSE {[panic |-> FALSE, v |-> last - first + 1]}

\* The verify closure of the last-index field; && leaves the sum unevaluated
\* unless the two comparisons before it hold.
LastIndexOk(size, first, last) ==
    IF last <= size /\ last >= first
    THEN {IF n.panic THEN "panic" ELSE IF n.v = size THEN "ok" ELSE "verify"
          : n \in RangeLen(first, last)}
    ELSE {"verify"}

\* The colour of the i-th entry of the palette chunk read at src.
EntryColor(src, i) == <<"color", src, i>>

\* parse_palette_chunk: c.size, c.first_index and c.last_index are the three
\* dwords, c.entries the entries the chunk's bytes hold.
ParsePaletteChunk(c) ==
    IF ~(c.first_index < c.size)
    THEN {[res |-> "err", err |-> VerifyError, first_index |-> 0, entries |-> <<>>]}
    ELSE { CASE r = "panic" ->
                  [res |-> "panic", err |-> <<"attempt to add with overflow">>,
                   first_index |-> 0, entries |-> <<>>]
             [] r = "verify" ->
                  [res |-> "err", err |-> VerifyError, first_index |-> 0,
                   entries |-> <<>>]
             [] OTHER ->
                  IF Len(c.entries) < c.size
                  THEN [res |-> "err", err |-> <<"Eof">>, first_index |-> 0,
                        entries |-> <<>>]
                  ELSE [res |-> "ok", err |-> <<>>,
                        first_index |-> c.first_index,
                        entries |-> [i \in 1..c.size |->
                                       [color |-> EntryColor(c.src, i)]]]
           : r \in LastIndexOk(c.size, c.first_index, c.last_index) }

\* palette.colors.resize(req_len, zeroed()) when it is shorter than req_len
Resized(colors, req_len) ==
    IF Len(colors) < req_len
    THEN colors \o [i \in 1..(req_len - Len(colors)) |-> ZeroColor]
    ELSE colors

\* A slip: the entries written from the start of the palette.
EntrySlotNoOffset(first_index, idx) == idx

\* Where entry idx (from 0) of a chunk lands in palette.colors (from 0).
EntrySlot(first_index, idx) == first_index + idx

\* for (idx, entry) in chunk.entries.iter().enumerate() { colors[..] = entry }
RECURSIVE WriteEntries(_, _, _, _)
WriteEntries(colors, first_index, entries, idx) ==
    IF idx >= Len(entries) THEN colors
    ELSE WriteEntries(
             [colors EXCEPT ![EntrySlot(first_index, idx) + 1] = entries[idx + 1].color],
             first_index, entries, idx + 1)

\* The Chunk::Palette arm on palette.colors.
MergePalette(colors, ch) ==
    WriteEntries(Resized(colors, ch.first_index + Len(ch.entries)),
                 ch.first_index, ch.entries, 0)

(* raw frame *)
\* FRAME_MAGIC_NUMBER: 0xF1FA
FRAME_MAGIC_NUMBER == 61946

\* The error dword_size(input, ParseError::InvalidFrameSize) gives for a size
\* field the input cannot hold.
FrameSizeError == <<"InvalidFrameSize">>

\* The error nom's tag makes of ErrorKind::Tag through
\* ParseError::from_error_kind.
TagError == <<"InvalidFrameMagic">>

\* parse_chunks(input, chunk_count): chunk_count chunks off the front of the
\* frame body, one after the other; the bytes after them are left alone.
ParseChunks(body, chunk_count) ==
    IF chunk_count <= Len(body)
    THEN [ok |-> TRUE, err |-> <<>>, chunks |-> SubSeq(body, 1, chunk_count)]
    ELSE [ok |-> FALSE, err |-> <<"Eof">>, chunks |-> <<>>]

\* A slip: the count of the 16-bit field drives parse_chunks.
LegacyChunkCount(word_count, dword_count) == word_count

\* The chunk_count parse_chunks is called with: `let (input, chunk_count) =
\* dword(input)?` shadows the chunk_count read as a word.
ChunkCount(word_count, dword_count) == dword_count

\* parse_rawframe: in.size_fits tells whether the size field is one the input
\* holds, the other fields are the frame's fields in file order.
ParseRawFrame(in) ==
    IF ~in.size_fits
    THEN [ok |-> FALSE, err |-> FrameSizeError, duration |-> 0, chunks |-> <<>>]
    ELSE IF in.magic # FRAME_MAGIC_NUMBER
    THEN [ok |-> FALSE, err |-> TagError, duration |-> 0, chunks |-> <<>>]
    ELSE LET r == ParseChunks(in.body, ChunkCount(in.word_count, in.dword_count))
         IN IF r.ok
            THEN [ok |-> TRUE, err |-> <<>>, duration |-> in.duration,
                  chunks |-> r.chunks]
            ELSE [ok |-> FALSE, err |-> r.err, duration |-> 0, chunks |-> <<>>]

\* What parse_rawframe returns on the input left after the last frame: the
\* size field cannot be read.
NoFrameLeft == [ok |-> FALSE, err |-> FrameSizeError, duration |-> 0, chunks |-> <<>>]

\* parse_rawframe on the front of the input, a sequence of frames.
ParseFront(input) ==
    IF input = <<>> THEN NoFrameLeft ELSE ParseRawFrame(Head(input))

\* E::append(input, ErrorKind::Many1, err): the error many1 returns when its
\* first parse fails.
AppendMany1(err) == err

\* The error all_consuming makes of ErrorKind::Eof through
\* ParseError::from_error_kind when input is left over.
EofError == <<"Nom", "Eof">>

\* many1 after its first frame: it parses frames until one fails, drops that
\* failure (`Err(Err::Error(_)) => return Ok((i, acc))`) and returns the
\* frames it has with the input left.
RECURSIVE ManyMore(_, _)
ManyMore(input, acc) ==
    LET r == ParseFront(input)
    IN IF r.ok THEN ManyMore(Tail(input), Append(acc, r))
       ELSE [acc |-> acc, rest |-> input]

\* all_consuming(many1(..)) once the first frame has parsed.
ManyAllConsuming(input, first) ==
    LET m == ManyMore(Tail(input), <<first>>)
    IN IF m.rest = <<>>
       THEN [ok |-> TRUE, err |-> <<>>, frames |-> m.acc]
       ELSE [ok |-> FALSE, err |-> EofError, frames |-> <<>>]

\* parse_frames: complete(all_consuming(many1(parse_rawframe)))(input)
ParseFrames(input) ==
    LET first == ParseFront(input)
    IN IF ~first.ok
       THEN [ok |-> FALSE, err |-> AppendMany1(first.err), frames |-> <<>>]
       ELSE ManyAllConsuming(input, first)

(* layer parameters *)
\* text.unwrap_or_default().split(',').map(str::trim): the texts of the model
\* hold no comma and no blanks, and no text is the empty string.
SplitTrim(text) == IF text = NoText THEN <<"">> ELSE <<text>>

\* str::to_ascii_lowercase on the words of the model
ToAsciiLowercase(word) ==
    CASE word = "Invisible" -> "invisible"
      [] word = "Hitbox" -> "hitbox"
      [] OTHER -> word

\* LayerParameter::from_str with #[strum(serialize_all = "snake_case")]; the
\* empty set stands for Err.
LayerParameterFromStr(word) ==
    CASE word = "hitbox" -> {"Hitbox"}
      [] word = "invisible" -> {"Invisible"}
      [] OTHER -> {}

\* UserDataChunk::parse_text_as_layer_parameters: the keys of the map.
ParseTextAsLayerParameters(text) ==
    LET words == SplitTrim(text)
    IN UNION {LayerParameterFromStr(ToAsciiLowercase(words[i])) :
                i \in 1..Len(words)}

(* ------------------------- AsepriteFile::new --------------------------- *)
Durations == {100}

\* The key of image_map: frames are counted from 0.
MapKey(frame, layer) == <<frame, layer>>

\* The image of a Cel chunk with CelContent::Image: its data are the bytes at
\* the chunk's place; inflates tells whether they decompress into the image.
\* width, height and pixels are the image the data decompress into
\* (images_decompressed).
ImageOf(c) ==
    [data |-> c.src, inflates |-> c.inflates, width |-> c.width,
     height |-> c.height, pixels |-> c.pixels]

\* for raw_frame in file.frames: frames.push(Frame { duration, cells: [] })
BeginFrame ==
    /\ pc = "frames" /\ status = "running"
    /\ Len(rawFrames) < MaxFrames
    /\ \E d \in Durations :
         frames' = Append(frames, [duration |-> d, cells |-> <<>>])
    /\ rawFrames' = Append(rawFrames, <<>>)
    /\ pos' = 0
    /\ closed' = FALSE
    /\ pc' = "chunks"
    /\ UNCHANGED <<status, error, header, chunk, color_profile, palette,
                   layers, images, tags, image_map>>
    /\ UNCHANGED parseVars

\* chunk_it.next() is None: the while loop of this frame ends.
EndChunks(A) ==
    /\ Running
    /\ EndOfChunks \in Upcoming(It, A)
    /\ pc' = "frames"
    /\ closed' = TRUE
    /\ UNCHANGED <<status, error, header, rawFrames, pos, chunk, color_profile,
                   palette, layers, frames, images, tags, image_map>>
    /\ UNCHANGED parseVars

\* Chunk::ColorProfile(profile) => color_profile = Some(profile)
DispatchColorProfile(A) ==
    /\ Running
    /\ UNCHANGED parseVars
    /\ \E c \in Upcoming(It, A) :
      /\ Yields(c, A) /\ c.kind = "ColorProfile"
      /\ SetIt(NextIt(c))
      /\ chunk' = c
      /\ color_profile' = c
      /\ UNCHANGED <<pc, status, error, header, palette, layers, frames,
                     images, tags, image_map>>

\* Chunk::Palette(chunk): the chunk as parse_palette_chunk decoded it is
\* merged into palette.colors; a chunk it rejects fails the load.
DispatchPalette(A) ==
    /\ Running
    /\ UNCHANGED parseVars
    /\ \E c \in Upcoming(It, A) :
      /\ Yields(c, A) /\ c.kind = "Palette"
      /\ SetIt(NextIt(c))
      /\ chunk' = c
      /\ \E r \in ParsePaletteChunk(c) :
           IF r.res = "ok"
           THEN /\ palette' = MergePalette(palette, r)
                /\ UNCHANGED <<pc, status, error>>
           ELSE /\ Stop(r.res, r.err)
                /\ UNCHANGED palette
      /\ UNCHANGED <<header, color_profile, layers, frames, images, tags,
                     image_map>>

\* Chunk::Layer(chunk)
DispatchLayer(A) ==
    /\ Running
    /\ UNCHANGED parseVars
    /\ \E c \in Upcoming(It, A) :
      /\ Yields(c, A) /\ c.kind = "Layer"
      /\ chunk' = c
      /\ \E r \in NextIf(NextIt(c), A) :
           /\ SetIt(r.it)
           /\ layers' = Append(layers,
                  [chunk |-> c, user_data |-> r.user_data,
                   parameters |-> ParseTextAsLayerParameters(r.user_data.text)])
      /\ UNCHANGED <<pc, status, error, header, color_profile, palette, frames,
                     images, tags, image_map>>

\* frames.last_mut().unwrap().cells.push(cel)
PushCel(fs, cel) == [fs EXCEPT ![Len(fs)].cells = Append(@, cel)]

\* A slip: the link resolved by frame alone, to the image of the lowest layer
\* of that frame.
LinkedImageAnyLayer(map, key) ==
    LET same == {k \in DOMAIN map : k[1] = key[1]}
        low == CHOOSE k \in same : \A o \in same : k[2] <= o[2]
    IN IF same # {} THEN [found |-> TRUE, image_index |-> map[low]]
       ELSE [found |-> FALSE, image_index |-> 0]

\* What CelContent::LinkedCel resolves to: image_map[&key], which panics on
\* a key the map does not hold.
LinkedImage(map, key) ==
    IF key \in DOMAIN map THEN [found |-> TRUE, image_index |-> map[key]]
    ELSE [found |-> FALSE, image_index |-> 0]

\* Chunk::Cel(chunk)
DispatchCel(A) ==
    /\ Running
    /\ UNCHANGED parseVars
    /\ \E c \in Upcoming(It, A) :
      /\ Yields(c, A) /\ c.kind = "Cel"
      /\ chunk' = c
      /\ \E r \in NextIf(NextIt(c), A) :
           /\ SetIt(r.it)
           /\ CASE c.content = "Image" ->
                     /\ images' = Append(images, ImageOf(c))
                     /\ image_map' =
                          (MapKey(Len(frames) - 1, c.layer_index) :> Len(images))
                              @@ image_map
                     /\ frames' = PushCel(frames,
                                      [chunk |-> c, user_data |-> r.user_data,
                                       image_index |-> Len(images)])
                     /\ UNCHANGED <<pc, status, error>>
                [] c.content = "LinkedCel" ->
                     LET l == LinkedImage(image_map,
                                          MapKey(c.frame_position, c.layer_index))
                     IN IF l.found
                        THEN /\ frames' = PushCel(frames,
                                      [chunk |-> c, user_data |-> r.user_data,
                                       image_index |-> l.image_index])
                             /\ UNCHANGED <<pc, status, error, images, image_map>>
                        ELSE /\ Stop("panic", <<"key not found in image_map">>)
                             /\ UNCHANGED <<frames, images, image_map>>
                [] c.content = "CompressedTilemap" ->
                     /\ Stop("panic", <<"not yet implemented">>)
                     /\ UNCHANGED <<frames, images, image_map>>
                [] OTHER ->
                     /\ Stop("err", <<"CelContent has unknown type!">>)
                     /\ UNCHANGED <<frames, images, image_map>>
      /\ UNCHANGED <<header, color_profile, palette, layers, tags>>

\* A slip: one next_if before the tags are mapped, its user data given to
\* every tag of the chunk.
ExtendTagsOneUserData(it, A, ts) ==
    IF ts = <<>> THEN {[it |-> it, out |-> <<>>]}
    ELSE { [it |-> r.it,
            out |-> [i \in 1..Len(ts) |->
                       [chunk |-> ts[i], user_data |-> r.user_data]]]
           : r \in NextIf(it, A) }

\* tags.extend(tags_chunk.tags.into_iter().map(|chunk| ..)): one next_if for
\* each tag, in order.
RECURSIVE ExtendTags(_, _, _)
ExtendTags(it, A, ts) ==
    IF ts = <<>> THEN {[it |-> it, out |-> <<>>]}
    ELSE UNION {
           { [it |-> rest.it,
              out |-> <<[chunk |-> Head(ts), user_data |-> r.user_data]>> \o rest.out]
             : rest \in ExtendTags(r.it, A, Tail(ts)) }
           : r \in NextIf(it, A) }

\* Chunk::Tags(tags_chunk): the chunk as parse_tags_chunk decoded it; a chunk
\* it rejects fails the load.
DispatchTags(A) ==
    /\ Running
    /\ UNCHANGED parseVars
    /\ \E c \in Upcoming(It, A) :
      /\ Yields(c, A) /\ c.kind = "Tags"
      /\ chunk' = c
      /\ LET parsed == ParseTagsChunk(c)
         IN IF parsed.ok
            THEN \E r \in ExtendTags(NextIt(c), A, parsed.tags) :
                   /\ SetIt(r.it)
                   /\ tags' = tags \o r.out
                   /\ UNCHANGED <<pc, status, error>>
            ELSE /\ SetIt(NextIt(c))
                 /\ Stop("err", parsed.err)
                 /\ UNCHANGED tags
      /\ UNCHANGED <<header, color_profile, palette, layers, frames, images,
                     image_map>>

\* The arms that do nothing: Slice, ExternalFiles, CelExtra, Palette0004,
\* Palette0011, Mask, Path, Unsupported.
IgnoredKinds ==
    {"Slice", "ExternalFiles", "CelExtra", "Palette0004", "Palette0011",
     "Mask", "Path", "Unsupported"}

DispatchIgnored(A) ==
    /\ Running
    /\ UNCHANGED parseVars
    /\ \E c \in Upcoming(It, A) :
      /\ Yields(c, A) /\ c.kind \in IgnoredKinds
      /\ SetIt(NextIt(c))
      /\ chunk' = c
      /\ UNCHANGED <<pc, status, error, header, color_profile, palette, layers,
                     frames, images, tags, image_map>>

\* Chunk::UserData(_) => {}: a User Data chunk no entity took.
DispatchUserData(A) ==
    /\ Running
    /\ UNCHANGED parseVars
    /\ \E c \in Upcoming(It, A) :
      /\ Yields(c, A) /\ c.kind = "UserData"
      /\ SetIt(NextIt(c))
      /\ chunk' = c
      /\ UNCHANGED <<pc, status, error, header, color_profile, palette, layers,
                     frames, images, tags, image_map>>

\* After the loops: the colour depth, the decompression of every image, the
\* colour profile, then Ok(Self).  parse_frames is many1: a file has a frame.
Finish ==
    /\ pc = "frames" /\ status = "running"
    /\ Len(rawFrames) >= 1
    /\ IF header.color_depth # "Rgba"
       THEN Stop("err", <<"Expecting color depth to be Rgba">>)
       ELSE IF \E i \in 1..Len(images) : ~images[i].inflates
       THEN Stop("err", <<"failed to decompress">>)
       ELSE IF color_profile = NoProfile
       THEN Stop("err", <<"Color profile chunk not found">>)
       ELSE Stop("ok", <<"none">>)
    /\ UNCHANGED <<header, rawFrames, pos, closed, chunk, color_profile,
                   palette, layers, frames, images, tags, image_map>>
    /\ UNCHANGED parseVars

(* ----------------------------- decompression --------------------------- *)
\* Decompress::decompress(data, output, FlushDecompress::Finish) on a fresh
\* decompressor with an output buffer of len bytes. A stream is "whole" (a
\* zlib stream that inflates to out_len bytes) or "corrupt". Finish with
\* output left over that the buffer cannot take is Status::BufError; a stream
\* that ends within the buffer is Status::StreamEnd, however much it filled.
Inflate(stream, len) ==
    IF stream.kind = "corrupt"
    THEN [ok |-> FALSE, status |-> "DecompressError", written |-> 0]
    ELSE IF stream.out_len > len
    THEN [ok |-> TRUE, status |-> "BufError", written |-> len]
    ELSE [ok |-> TRUE, status |-> "StreamEnd", written |-> stream.out_len]

\* decompressor.decompress(..).map_err(..)?; buf -- the Status is dropped.
InflatedAny(r, len) ==
    IF r.ok
    THEN [res |-> "ok", written |-> r.written, len |-> len]
    ELSE [res |-> "err", err |-> <<"failed to decompress">>]

\* The closure of images.iter().map(..) in AsepriteFile::new: the RGBA image
\* made of one image of the file.
DecompressedImage(image) ==
    LET len == image.width * image.height * 4
    IN IF image.compressed
       THEN InflatedAny(Inflate(image.data, len), len)
       ELSE \* RgbaImage::from_raw takes a container at least len long
            IF image.data.out_len >= len
            THEN [res |-> "ok", written |-> len, len |-> len]
            ELSE [res |-> "err", err |-> <<"image::RgbaImage::from_raw error">>]

\* decompress(data, target) of the older loader
Decompress(data, target_len) ==
    LET r == Inflate(data, target_len)
    IN IF r.ok /\ r.status = "StreamEnd"
       THEN [res |-> "ok", written |-> r.written, len |-> target_len]
       ELSE [res |-> "err", err |-> <<"DecompressError">>]

(* ------------------------------ indexed pixels ------------------------- *)
\* Palette::colors is [Color; 256]
PaletteSlots == 256

\* Color::default()
DefaultColor == [red |-> 0, green |-> 0, blue |-> 0, alpha |-> 0]

\* The colour a palette chunk put at index i: each channel tells the index
\* and the channel.
PopulatedColor(i) ==
    [red |-> 4 * i + 1, green |-> 4 * i + 2, blue |-> 4 * i + 3,
     alpha |-> 4 * i + 4]

\* A palette whose indices below populated were written by palette chunks; the
\* rest hold Color::default(). colors is indexed from 0.
PaletteOf(populated) ==
    [populated |-> populated,
     colors |-> [i \in 0..(PaletteSlots - 1) |->
                   IF i < populated THEN PopulatedColor(i) ELSE DefaultColor]]

\* A slip: blue and red change places.
BgraBytes(color) == <<color.blue, color.green, color.red, color.alpha>>

\* target[i * 4] = color.red; .. + 1 = green; .. + 2 = blue; .. + 3 = alpha
RgbaBytes(color) == <<color.red, color.green, color.blue, color.alpha>>

\* The loop of indexed_to_rgba: palette.colors[*px as usize] for each pixel; a
\* u8 is an index the 256 slots always hold.
RECURSIVE IndexedPixels(_, _)
IndexedPixels(source, pal) ==
    IF source = <<>> THEN <<>>
    ELSE RgbaBytes(pal.colors[Head(source)]) \o IndexedPixels(Tail(source), pal)

\* indexed_to_rgba(source, palette, target), target given by its length
IndexedToRgba(source, pal, target_len) ==
    IF target_len # Len(source) * 4
    THEN [res |-> "err", err |-> <<"InvalidImageData">>, target |-> <<>>]
    ELSE [res |-> "ok", err |-> <<>>, target |-> IndexedPixels(source, pal)]

(* ------------------------------ blend_channel -------------------------- *)
\* The blend modes the match of blend_channel names, and "Unlisted" for any
\* other variant of BlendMode (the `_` arm).
NamedBlendModes ==
    {"Normal", "Multiply", "Screen", "Darken", "Lighten", "Addition",
     "Subtract", "Difference", "Overlay"}
BlendModes == NamedBlendModes \cup {"Unlisted"}

\* u8::MAX squared: the channels are fractions of u8::MAX, and the products of
\* two of them are counted in units of 1 / UnitSquare.
UnitSquare == ByteMax * ByteMax

Min(a, b) == IF a < b THEN a ELSE b
Max(a, b) == IF a > b THEN a ELSE b
Abs(a) == IF a < 0 THEN 0 - a ELSE a

\* A slip: the Normal arm multiplies as the Multiply arm does.
NormalAsMultiply(first, second) == first * second

\* BlendMode::Normal => second
NormalResult(first, second) == second * ByteMax

\* A slip: the `_` arm gives the second channel.
UnlistedAsSecond(first, second) == second * ByteMax

\* _ => first
UnlistedResult(first, second) == first * ByteMax

\* `let result = match blend_mode { .. }` for the bytes first and second, in
\* units of 1 / UnitSquare.
BlendResult(first, second, blend_mode) ==
    CASE blend_mode = "Normal" -> NormalResult(first, second)
      [] blend_mode = "Multiply" -> first * second
      [] blend_mode = "Screen" ->
             UnitSquare - (ByteMax - first) * (ByteMax - second)
      [] blend_mode = "Darken" -> Min(first, second) * ByteMax
      [] blend_mode = "Lighten" -> Max(first, second) * ByteMax
      [] blend_mode = "Addition" -> Min(first + second, ByteMax) * ByteMax
      [] blend_mode = "Subtract" -> Max(first - second, 0) * ByteMax
      [] blend_mode = "Difference" -> Abs(first - second) * ByteMax
      [] blend_mode = "Overlay" ->
             IF 2 * first < ByteMax
             THEN 2 * first * second
             ELSE UnitSquare - 2 * (ByteMax - first) * (ByteMax - second)
      [] OTHER -> UnlistedResult(first, second)

\* `first * (1.0 - alpha) + result * alpha`, times 255.0, in units of
\* 1 / UnitSquare: the value the final round() is taken of, had the f32
\* operations no rounding error.
Blended(first, second, alpha, blend_mode) ==
    first * (ByteMax - alpha) * ByteMax
        + BlendResult(first, second, blend_mode) * alpha

\* The rounding errors of the f32 operations of blend_channel move the value
\* that is rounded by less than FloatSlack / (2 * UnitSquare) of a byte step
\* (a dozen operations on values up to 1, each within 2^-24, times 255).
FloatSlack == 63

\* The bytes round() can give for a value of v / UnitSquare that the f32
\* operations reached within the slack: the nearest byte, and the next one
\* when v lies within the slack of the point half way between them.
RoundedBytes(v) ==
    {r \in 0..ByteMax : Abs(2 * v - 2 * r * UnitSquare) <= UnitSquare + FloatSlack}

\* (blended.clamp(0.0, 1.0) * 255.0).round() as u8: the nearest byte. The
\* value is a multiple of 1 / UnitSquare and UnitSquare is odd, so it never
\* lies half way between two bytes.
RoundToByte(v) == Min(Max((2 * v + UnitSquare) \div (2 * UnitSquare), 0), ByteMax)

\* blend_channel(first, second, alpha, blend_mode)
BlendChannel(first, second, alpha, blend_mode) ==
    RoundToByte(Blended(first, second, alpha, blend_mode))

\* u16: the values a product of two u16 wraps around at (a build with
\* overflow checks panics instead; the product of two bytes stays below).
U16Range == 65536

\* A slip: the quotient rounded to the nearest byte.
TotalAlphaRounded(a, opacity) ==
    ((((a * opacity) % U16Range) + 127) \div ByteMax) % (ByteMax + 1)

\* ((cel_pixel.a() as u16 * layer.chunk.opacity as u16) / u8::MAX as u16) as u8
TotalAlpha(a, opacity) ==
    (((a * opacity) % U16Range) \div ByteMax) % (ByteMax + 1)

(* ------------------------------ compositing ---------------------------- *)
\* The pixel of RgbaImage::new: red, green, blue, alpha all 0.
Transparent == <<0, 0, 0, 0>>

\* image::RgbaImage::new(width, height): the pixels row by row.
NewImage(width, height) ==
    [width |-> width, height |-> height,
     pixels |-> [i \in 1..(width * height) |-> Transparent]]

\* A slip: the buffer of the call before is drawn on again.
CanvasKept(width, height, last) ==
    IF last.res = "ok" /\ last.of = "combined_frame_image"
    THEN last.img
    ELSE NewImage(width, height)

\* `let mut pixels = image::RgbaImage::new(canvas_width, canvas_height)`:
\* every call draws on a buffer of its own; last, what the call before
\* returned, is nothing the function has.
Canvas(width, height, last) == NewImage(width, height)

\* im.get_pixel(x, y)
PixelAt(im, px, py) == im.pixels[py * im.width + px + 1]

\* Cel::x and Cel::y: chunk.x as u32, for the cels of the model, none of which
\* lies left of or above the canvas.
CelX(cel) == cel.chunk.x
CelY(cel) == cel.chunk.y

\* The four blend_channel calls on one target pixel.
BlendPixel(target_pixel, cel_pixel, layer) ==
    LET total_alpha == TotalAlpha(cel_pixel[4], layer.chunk.opacity)
    IN [c \in 1..4 |->
          BlendChannel(target_pixel[c], cel_pixel[c], total_alpha,
                       layer.chunk.blend_mode)]

\* get_pixel_mut(x + cel.x() - offset.0, y + cel.y() - offset.1) panics for
\* some pixel of im.
LeavesBuffer(img, im, cel, offset) ==
    \/ im.width > 0 /\ im.height > 0
       /\ \/ (im.width - 1) + CelX(cel) - offset[1] >= img.width
          \/ (im.height - 1) + CelY(cel) - offset[2] >= img.height

\* `for (x, y, cel_pixel) in im.enumerate_pixels()` on a buffer all of im's
\* pixels have a place in.
DrawCel(img, im, cel, offset, layer) ==
    [img EXCEPT !.pixels =
       [i \in 1..(img.width * img.height) |->
          LET px == ((i - 1) % img.width) - CelX(cel) + offset[1]
              py == ((i - 1) \div img.width) - CelY(cel) + offset[2]
          IN IF px >= 0 /\ px < im.width /\ py >= 0 /\ py < im.height
             THEN BlendPixel(img.pixels[i], PixelAt(im, px, py), layer)
             ELSE img.pixels[i]]]

\* The layers a compositing loop passes over: combined_frame_image those
\* whose visibility flag is off (rule "flag"), combined_frame_image_cropped
\* those with the parameter Invisible (rule "parameter").
Skipped(layer, rule) ==
    IF rule = "flag" THEN ~layer.chunk.visible
    ELSE "Invisible" \in layer.parameters

Panic(why) == [res |-> "panic", err |-> why]

\* `for cel in frame.cells.iter() { .. }` of the two compositing functions.
RECURSIVE DrawCels(_, _, _, _, _, _)
DrawCels(cells, lays, ims, img, offset, rule) ==
    IF cells = <<>> THEN [res |-> "ok", img |-> img]
    ELSE LET cel == Head(cells)
         IN IF cel.chunk.layer_index >= Len(lays)
            THEN Panic(<<"index out of bounds">>)
            ELSE LET layer == lays[cel.chunk.layer_index + 1]
                 IN IF Skipped(layer, rule)
                    THEN DrawCels(Tail(cells), lays, ims, img, offset, rule)
                    ELSE IF cel.image_index >= Len(ims)
                    THEN Panic(<<"index out of bounds">>)
                    ELSE LET im == ims[cel.image_index + 1]
                         IN IF LeavesBuffer(img, im, cel, offset)
                            THEN Panic(<<"Image index out of bounds">>)
                            ELSE DrawCels(Tail(cells), lays, ims,
                                          DrawCel(img, im, cel, offset, layer),
                                          offset, rule)

\* AsepriteFile::combined_frame_image(frame_index) on the buffer pixels.
CombinedFrameImage(fs, lays, ims, frame_index, pixels) ==
    IF frame_index >= Len(fs) THEN Panic(<<"index out of bounds">>)
    ELSE LET r == DrawCels(fs[frame_index + 1].cells, lays, ims, pixels,
                           <<0, 0>>, "flag")
         IN IF r.res = "ok"
            THEN [res |-> "ok", of |-> "combined_frame_image", img |-> r.img]
            ELSE r

\* The first loop of combined_frame_image_cropped: is_cell, min_xy and max_xy
\* over the cels it does not pass over.
RECURSIVE CropBox(_, _, _, _)
CropBox(cells, lays, ims, box) ==
    IF cells = <<>> THEN box
    ELSE LET cel == Head(cells)
         IN IF cel.chunk.layer_index >= Len(lays) THEN Panic(<<"index out of bounds">>)
            ELSE IF Skipped(lays[cel.chunk.layer_index + 1], "parameter")
            THEN CropBox(Tail(cells), lays, ims, box)
            ELSE IF cel.image_index >= Len(ims) THEN Panic(<<"index out of bounds">>)
            ELSE LET im == ims[cel.image_index + 1]
                 IN CropBox(Tail(cells), lays, ims,
                      [res |-> "ok", is_cell |-> TRUE,
                       min_xy |-> <<IF box.is_cell THEN Min(box.min_xy[1], CelX(cel))
                                    ELSE CelX(cel),
                                    IF box.is_cell THEN Min(box.min_xy[2], CelY(cel))
                                    ELSE CelY(cel)>>,
                       max_xy |-> <<Max(box.max_xy[1], CelX(cel) + im.width),
                                    Max(box.max_xy[2], CelY(cel) + im.height)>>])

\* is_cell = false, max_xy = (0, 0); min_xy = (u32::MAX, u32::MAX) stands as
\* is_cell = false until the first cel.
NoBox == [res |-> "ok", is_cell |-> FALSE, min_xy |-> <<0, 0>>, max_xy |-> <<0, 0>>]

\* Frame::combined_frame_image_cropped(layers, images)
CombinedFrameImageCropped(frame, lays, ims) ==
    LET box == CropBox(frame.cells, lays, ims, NoBox)
    IN IF box.res = "panic" THEN box
       ELSE IF ~box.is_cell THEN [res |-> "err", err |-> <<"EmptyFrame">>]
       ELSE LET r == DrawCels(frame.cells, lays, ims,
                        NewImage(box.max_xy[1] - box.min_xy[1],
                                 box.max_xy[2] - box.min_xy[2]),
                        box.min_xy, "parameter")
            IN IF r.res = "ok"
               THEN [res |-> "ok", of |-> "combined_frame_image_cropped",
                     img |-> r.img, displacement_x |-> box.min_xy[1],
                     displacement_y |-> box.min_xy[2]]
               ELSE r

\* Frame::hitboxes(layers, images)
RECURSIVE HitboxesOf(_, _, _)
HitboxesOf(cells, lays, ims) ==
    IF cells = <<>> THEN [res |-> "ok", of |-> "hitboxes", out |-> <<>>]
    ELSE LET cel == Head(cells)
             rest == HitboxesOf(Tail(cells), lays, ims)
         IN IF cel.chunk.layer_index >= Len(lays) THEN Panic(<<"index out of bounds">>)
            ELSE IF "Hitbox" \notin lays[cel.chunk.layer_index + 1].parameters
            THEN rest
            ELSE IF cel.image_index >= Len(ims) THEN Panic(<<"index out of bounds">>)
            ELSE IF rest.res = "panic" THEN rest
            ELSE LET img == ims[cel.image_index + 1]
                 IN [rest EXCEPT !.out =
                       <<[offset |-> <<CelX(cel), CelX(cel)>>,
                          size |-> <<img.width, img.height>>,
                          layer_id |-> cel.chunk.layer_index]>> \o @]

(* ------------------- load_image of the older loader ------------------- *)
\* u16 `a * b`: a product past the width panics in a build with overflow
\* checks and wraps in one without.
MulU16(a, b) ==
    IF a * b >= U16Range
    THEN {[panic |-> TRUE, v |-> 0], [panic |-> FALSE, v |-> (a * b) % U16Range]}
    ELSE {[panic |-> FALSE, v |-> a * b]}

\* image.width * image.height * bytes_per_pixel in u16, left to right
\* (bytes_per_pixel 1: image.width * image.height).
ImageBytes(image, bytes_per_pixel) ==
    UNION {IF n.panic \/ bytes_per_pixel = 1 THEN {n}
           ELSE MulU16(n.v, bytes_per_pixel)
             : n \in MulU16(image.width, image.height)}

\* A result of load_image or of one of its steps, the buffers given by their
\* lengths.
Loaded == [res |-> "ok", err |-> <<>>]
LoadError(e) == [res |-> "err", err |-> <<e>>]

\* grayscale_to_rgba(source, target)
GrayscaleToRgba(source_len, target_len) ==
    IF target_len # source_len * 2 THEN LoadError("InvalidImageData") ELSE Loaded

\* indexed_to_rgba(source, palette, target), by the lengths of its buffers
IndexedToRgbaInto(source_len, target_len) ==
    IF target_len # source_len * 4 THEN LoadError("InvalidImageData") ELSE Loaded

\* decompress(image.data, &mut buf)? into a buffer of buf_len bytes, then
\* what follows it.
DecompressThen(data, buf_len, then) ==
    IF Decompress(data, buf_len).res = "ok" THEN then
    ELSE LoadError("DecompressError")

\* The match of load_image on (color_depth, image.compressed), target being
\* &mut target[..target_size]; image.data is a stream that inflates to
\* data.out_len bytes when compressed, and data.out_len bytes otherwise.
LoadImageMatch(image, color_depth, has_palette, target_size) ==
    LET palette_or == IF has_palette THEN {} ELSE {LoadError("MissingPalette")}
    IN CASE color_depth = "Rgba" /\ ~image.compressed ->
              {IF image.data.out_len = target_size THEN Loaded
               ELSE Panic(<<"copy_from_slice: source slice length does not match">>)}
         [] color_depth = "Rgba" /\ image.compressed ->
              {DecompressThen(image.data, target_size, Loaded)}
         [] color_depth = "Grayscale" /\ ~image.compressed ->
              {GrayscaleToRgba(image.data.out_len, target_size)}
         [] color_depth = "Grayscale" /\ image.compressed ->
              {IF n.panic THEN Panic(<<"attempt to multiply with overflow">>)
               ELSE DecompressThen(image.data, n.v, GrayscaleToRgba(n.v, target_size))
                 : n \in ImageBytes(image, 2)}
         [] color_depth = "Indexed" /\ ~image.compressed ->
              IF has_palette
              THEN {IndexedToRgbaInto(image.data.out_len, target_size)}
              ELSE palette_or
         [] color_depth = "Indexed" /\ image.compressed ->
              {IF n.panic THEN Panic(<<"attempt to multiply with overflow">>)
               ELSE DecompressThen(image.data, n.v,
                      IF has_palette THEN IndexedToRgbaInto(n.v, target_size)
                      ELSE LoadError("MissingPalette"))
                 : n \in ImageBytes(image, 1)}
         [] OTHER -> {LoadError("UnsupportedColorDepth")}

\* AsepriteFile::load_image(index, target) of the older loader, for the image
\* at index and a target of target_len bytes: the results a build can give.
LoadImage(image, color_depth, has_palette, target_len) ==
    UNION {IF n.panic THEN {Panic(<<"attempt to multiply with overflow">>)}
           ELSE IF target_len < n.v THEN {LoadError("TargetBufferTooSmall")}
           ELSE LoadImageMatch(image, color_depth, has_palette, n.v)
             : n \in ImageBytes(image, 4)}

(* ------------------------- AnimationSet::from_ase ---------------------- *)
\* TagParameter has no variant: from_str fails on every word and the
\* parameters of a tag are the empty Vec.
ParseTextAsTagParameters(text) == <<>>

\* Tag { chunk, parameters: user_data.parse_text_as_tag_parameters(), user_data }
TagWith(name, from, to) ==
    [chunk |-> ParseTag(RawTag(from, to, 0, name)).tag,
     user_data |-> DefaultUserData,
     parameters |-> ParseTextAsTagParameters(NoText)]

\* format!("{base_name}{ind}")
ImgRef(base_name, ind) == <<base_name, ind>>

\* A slip: the images packed so far are never looked up.
GetByRightNever(dedup, img) == {}

\* BiHashMap::get_by_right: the pairs (one at most) whose right value equals
\* img as RgbaImage's derived PartialEq compares it: dimensions and pixels.
GetByRight(dedup, img) == {p \in dedup : p[2] = img}

\* BiHashMap::insert: a pair sharing its left or its right value is replaced.
BiInsert(dedup, left, right) ==
    {p \in dedup : p[1] # left /\ p[2] # right} \cup {<<left, right>>}

\* MultiTexturePacker::pack_own(key, texture) of the texture_packer crate:
\* the packer takes the texture while it has room, and fails otherwise.
PackOwn(packer, key, texture) ==
    IF Len(packer.packed) < packer.room
    THEN [ok |-> TRUE,
          packer |-> [packer EXCEPT !.packed = @ \o <<<<key, texture>>>>]]
    ELSE [ok |-> FALSE, packer |-> packer]

\* for (ind, f) in file.frames.into_iter().enumerate() { .. }, from frame ind:
\* st holds frame_image_dedup, the packer and anim_frames.
RECURSIVE AnimFrames(_, _, _, _, _, _)
AnimFrames(fs, ind, lays, ims, base_name, st) ==
    IF ind >= Len(fs) THEN st
    ELSE
    LET f == fs[ind + 1]
        img == CombinedFrameImageCropped(f, lays, ims)
        hit == HitboxesOf(f.cells, lays, ims)
        Push(image_ids, dedup, packer) ==
            IF hit.res = "panic"
            THEN [st EXCEPT !.res = "panic", !.err = hit.err, !.packer = packer]
            ELSE AnimFrames(fs, ind + 1, lays, ims, base_name,
                   [st EXCEPT !.dedup = dedup, !.packer = packer,
                              !.anim_frames = @ \o
                                 <<[duration |-> f.duration,
                                    image_ids |-> image_ids,
                                    hitboxes |-> hit.out,
                                    actions |-> <<>>]>>])
    IN IF img.res = "panic" THEN [st EXCEPT !.res = "panic", !.err = img.err]
       ELSE IF img.res = "err"
       THEN IF img.err = <<"EmptyFrame">>
            THEN Push(<<>>, st.dedup, st.packer)
            ELSE [st EXCEPT !.res = "err", !.err = img.err]
       ELSE
       LET tl_offset == <<img.displacement_x, img.displacement_y>>
           found == GetByRight(st.dedup, img.img)
       IN IF found # {}
          THEN Push(<<[image_ref |-> (CHOOSE p \in found : TRUE)[1],
                       tl_offset |-> tl_offset]>>, st.dedup, st.packer)
          ELSE LET img_ref == ImgRef(base_name, ind)
                   packed == PackOwn(st.packer, img_ref, img.img)
               IN IF ~packed.ok
                  THEN [st EXCEPT !.res = "err", !.err = <<"PackError">>]
                  ELSE Push(<<[image_ref |-> img_ref, tl_offset |-> tl_offset]>>,
                            BiInsert(st.dedup, img_ref, img.img), packed.packer)

\* anim_frames[t.frame_range()].to_owned(): the slice from..=to, a panic when
\* the range does not lie in the Vec.
SliceOf(anim_frames, t) ==
    LET from == t.chunk.frames[1]
        to == t.chunk.frames[2]
    IN IF to + 1 > Len(anim_frames)
       THEN Panic(<<"range end index out of range for slice">>)
       ELSE IF from > to + 1
       THEN Panic(<<"slice index starts after its end">>)
       ELSE [res |-> "ok", frames |-> SubSeq(anim_frames, from + 1, to + 1)]

\* file.tags.into_iter().map(|t| ..).collect() into the AHashMap: a later
\* tag of the same name takes the place of an earlier one.
RECURSIVE CollectAnimations(_, _, _)
CollectAnimations(ts, anim_frames, acc) ==
    IF ts = <<>> THEN [res |-> "ok", animations |-> acc]
    ELSE LET t == Head(ts)
             slice == SliceOf(anim_frames, t)
         IN IF slice.res = "panic" THEN slice
            ELSE CollectAnimations(Tail(ts), anim_frames,
                   [n \in (DOMAIN acc) \cup {t.chunk.name} |->
                      IF n = t.chunk.name
                      THEN [frames |-> slice.frames, actions |-> t.parameters]
                      ELSE acc[n]])

\* AnimationSet::from_ase(file, base_name, packer): the AnimationSet, with the
\* textures the packer was handed and the anim_frames the animations were
\* sliced from.
FromAse(hdr, fs, lays, ims, ts, base_name, room) ==
    LET st == AnimFrames(fs, 0, lays, ims, base_name,
                [res |-> "ok", err |-> <<>>, dedup |-> {},
                 packer |-> [room |-> room, packed |-> <<>>],
                 anim_frames |-> <<>>])
    IN IF st.res = "panic" THEN Panic(st.err)
       ELSE IF st.res = "err"
       THEN [res |-> "err", of |-> "from_ase", err |-> st.err,
             packed |-> st.packer.packed]
       ELSE LET collected == CollectAnimations(ts, st.anim_frames, EmptyMap)
            IN IF collected.res = "panic" THEN collected
               ELSE [res |-> "ok", of |-> "from_ase",
                     canvas_size |-> <<hdr.width, hdr.height>>,
                     layer_parameters |-> [i \in 1..Len(lays) |-> lays[i].parameters],
                     animations |-> collected.animations,
                     anim_frames |-> st.anim_frames,
                     packed |-> st.packer.packed]

(* ------------------------- tl_offset_to_centered ------------------------ *)
\* Every value of the function is a multiple of 1/2: a value is held as its
\* count of halves. An f32 keeps 24 significant bits.
F32Mantissa == 16777216

\* The spacing of the f32 values around a magnitude of a halves.
RECURSIVE UlpOf(_, _)
UlpOf(a, u) == IF a < F32Mantissa * u THEN u ELSE UlpOf(a, 2 * u)

\* The f32 nearest to h halves, a tie going to the even mantissa; the result
\* of `as f32` and of every f32 operation is rounded so.
RoundF32(h) ==
    LET a == Abs(h)
        u == UlpOf(a, 1)
        q == a \div u
        r == a % u
        up == (2 * r > u) \/ (2 * r = u /\ q % 2 = 1)
        m == (IF up THEN q + 1 ELSE q) * u
    IN IF h < 0 THEN 0 - m ELSE m

\* n as f32, in halves.
AsF32(n) == RoundF32(2 * n)

\* x / 2.0: exact in f32, the values here being far from the subnormals.
HalfOf(h) == h \div 2

\* A slip: the centre of the canvas without the step for odd sizes.
CenteredPlain(tl_offset, sprite_size, canvas_size) ==
    LET canvas_center == HalfOf(AsF32(canvas_size))
        local_sprite_center == HalfOf(AsF32(sprite_size))
        sprite_center_wrt_canvas == RoundF32(AsF32(tl_offset) + local_sprite_center)
    IN RoundF32(canvas_center - sprite_center_wrt_canvas)

\* One axis of tl_offset_to_centered, in halves. The u32 sum
\* canvas_size + canvas_size % 2 stays below 2^32 for the sizes looked at.
Centered(tl_offset, sprite_size, canvas_size) ==
    LET canvas_center == HalfOf(AsF32(canvas_size + (canvas_size % 2)))
        local_sprite_center == HalfOf(AsF32(sprite_size))
        sprite_center_wrt_canvas == RoundF32(AsF32(tl_offset) + local_sprite_center)
    IN RoundF32(canvas_center - sprite_center_wrt_canvas)

\* tl_offset_to_centered(tl_offset, sprite_size, canvas_size)
TlOffsetToCentered(tl_offset, sprite_size, canvas_size) ==
    <<Centered(tl_offset[1], sprite_size[1], canvas_size[1]),
      Centered(tl_offset[2], sprite_size[2], canvas_size[2])>>

(* ------------------------ Frame::cell_at_layer_index ------------------- *)
\* c.layer_index().cmp(&layer_index)
CmpLayer(cel, layer_index) ==
    IF cel.chunk.layer_index < layer_index THEN "Less"
    ELSE IF cel.chunk.layer_index > layer_index THEN "Greater"
    ELSE "Equal"

\* slice::binary_search_by with the left/right loop: Ok(index) as
\* <<"Ok", index>> (index from 0), Err(_) as <<"Err">>.
RECURSIVE SearchLeftRight(_, _, _, _)
SearchLeftRight(cells, layer_index, left, right) ==
    IF ~(left < right) THEN <<"Err">>
    ELSE LET mid == left + ((right - left) \div 2)
             cmp == CmpLayer(cells[mid + 1], layer_index)
         IN CASE cmp = "Less" -> SearchLeftRight(cells, layer_index, mid + 1, right)
              [] cmp = "Greater" -> SearchLeftRight(cells, layer_index, left, mid)
              [] OTHER -> <<"Ok", mid>>

\* slice::binary_search_by with the base/size loop.
RECURSIVE SearchBaseSize(_, _, _, _)
SearchBaseSize(cells, layer_index, base, size) ==
    IF size > 1
    THEN LET half == size \div 2
             mid == base + half
             cmp == CmpLayer(cells[mid + 1], layer_index)
         IN SearchBaseSize(cells, layer_index,
                           IF cmp = "Greater" THEN base ELSE mid, size - half)
    ELSE IF CmpLayer(cells[base + 1], layer_index) = "Equal"
         THEN <<"Ok", base>> ELSE <<"Err">>

\* The results binary_search_by can give: the standard library has shipped
\* both loops, and they agree on a sorted slice only.
BinarySearch(cells, layer_index) ==
    IF cells = <<>> THEN {<<"Err">>}
    ELSE {SearchLeftRight(cells, layer_index, 0, Len(cells)),
          SearchBaseSize(cells, layer_index, 0, Len(cells))}

NoCel == [chunk |-> Blank, user_data |-> DefaultUserData, image_index |-> 0]

\* Frame::cell_at_layer_index: Some(cel) as [some |-> TRUE, cel |-> cel].
CellAtLayerIndex(frame, layer_index) ==
    { IF r[1] = "Ok" THEN [some |-> TRUE, cel |-> frame.cells[r[2] + 1]]
      ELSE [some |-> FALSE, cel |-> NoCel]
      : r \in BinarySearch(frame.cells, layer_index) }

(* ------------------------- the files looked at ------------------------- *)
TagsChunk(raws) == [Blank EXCEPT !.kind = "Tags", !.tags = raws]
PaletteChunk(size, first, last, held) ==
    [Blank EXCEPT !.kind = "Palette", !.size = size, !.first_index = first,
                  !.last_index = last, !.entries = [i \in 1..held |-> i]]

\* Files of every kind of chunk, one or two of each.
AsmFiles ==
    [chunks |-> {LayerChunk, UserDataChunk, ColorProfileChunk, SliceChunk,
                 CelChunk(0, "Image", 0), CelChunk(0, "LinkedCel", 0),
                 TagsChunk(<<RawTag(0, 0, 0, "Tag 1")>>),
                 PaletteChunk(1, 0, 0, 1)},
     max |-> MaxChunks, once |-> {}]

NextAsm ==
    \/ BeginFrame
    \/ EndChunks(AsmFiles)
    \/ DispatchColorProfile(AsmFiles)
    \/ DispatchPalette(AsmFiles)
    \/ DispatchLayer(AsmFiles)
    \/ DispatchCel(AsmFiles)
    \/ DispatchTags(AsmFiles)
    \/ DispatchIgnored(AsmFiles)
    \/ DispatchUserData(AsmFiles)
    \/ Finish

SpecAsm == InitAsm /\ [][NextAsm]_vars

\* Files of cels, direct and linked, on every layer.
CelFiles ==
    [chunks |-> {CelChunk(l, "Image", 0) : l \in 0..MaxLayer}
                \cup {CelChunk(l, "LinkedCel", m) :
                        l \in 0..MaxLayer, m \in 0..(MaxFrames - 1)}
                \cup {UserDataChunk, ColorProfileChunk},
     max |-> MaxChunks, once |-> {}]

NextCels ==
    \/ BeginFrame
    \/ EndChunks(CelFiles)
    \/ DispatchColorProfile(CelFiles)
    \/ DispatchCel(CelFiles)
    \/ DispatchUserData(CelFiles)
    \/ Finish

SpecCels == InitAsm /\ [][NextCels]_vars

\* A Tags chunk that declares n tags, "Tag 1" .. "Tag n", each over frame 0.
TagName(i) == <<"Tag", i>>
TagsOf(n) == TagsChunk([i \in 1..n |-> RawTag(0, 0, 0, TagName(i))])

\* Files of Tags chunks and the user data around them.
TagFiles ==
    [chunks |-> {TagsOf(n) : n \in 0..MaxTags}
                \cup {UserDataChunk, SliceChunk, ColorProfileChunk},
     max |-> MaxChunks, once |-> {}]

NextTags ==
    \/ BeginFrame
    \/ EndChunks(TagFiles)
    \/ DispatchColorProfile(TagFiles)
    \/ DispatchTags(TagFiles)
    \/ DispatchIgnored(TagFiles)
    \/ DispatchUserData(TagFiles)
    \/ Finish

SpecTags == InitAsm /\ [][NextTags]_vars

\* Files of one Palette chunk with any size, first index and last index, the
\* entries it declares held in full or cut one short.
PaletteRangeFiles ==
    [chunks |-> {PaletteChunk(x[1], x[2], x[3], x[4]) :
                   x \in {y \in (0..DwordMax) \X (0..DwordMax)
                                   \X (0..DwordMax) \X (0..DwordMax) :
                            y[4] \in {y[1], y[1] - 1}}}
                \cup {ColorProfileChunk},
     max |-> MaxChunks, once |-> {"Palette"}]

NextPaletteRange ==
    \/ BeginFrame
    \/ EndChunks(PaletteRangeFiles)
    \/ DispatchColorProfile(PaletteRangeFiles)
    \/ DispatchPalette(PaletteRangeFiles)
    \/ Finish

SpecPaletteRange == InitAsm /\ [][NextPaletteRange]_vars

\* parse_palette_chunk gives Ok for the chunk.
Decodes(c) == \E r \in ParsePaletteChunk(c) : r.res = "ok"

\* Files of Palette chunks, any number of them, that parse_palette_chunk
\* decodes, of sizes below the largest dword.
PaletteFiles ==
    [chunks |-> {c \in PaletteRangeFiles.chunks :
                   c.kind = "Palette" => (c.size < DwordMax /\ Decodes(c))},
     max |-> MaxChunks, once |-> {}]

NextPalette ==
    \/ BeginFrame
    \/ EndChunks(PaletteFiles)
    \/ DispatchColorProfile(PaletteFiles)
    \/ DispatchPalette(PaletteFiles)
    \/ Finish

SpecPalette == InitAsm /\ [][NextPalette]_vars

\* The tags a Tags chunk can hold: any from_frame and to_frame.
RawTags == {RawTag(from, to, 0, "Tag") :
              from \in 0..MaxTagFrame, to \in 0..MaxTagFrame}

\* Files of one Tags chunk of any tags.
TagRangeFiles ==
    [chunks |-> {TagsChunk(raws) :
                   raws \in UNION {[1..n -> RawTags] : n \in 0..MaxTags}}
                \cup {ColorProfileChunk},
     max |-> MaxChunks, once |-> {"Tags"}]

NextTagRange ==
    \/ BeginFrame
    \/ EndChunks(TagRangeFiles)
    \/ DispatchColorProfile(TagRangeFiles)
    \/ DispatchTags(TagRangeFiles)
    \/ Finish

SpecTagRange == InitAsm /\ [][NextTagRange]_vars

\* Files with layers of every layer type and cels of every content.
LayerTypes == {"Normal", "Group", "Tilemap"}
CelContents == {"Image", "CompressedTilemap", "Unknown"}
UnsupportedFiles ==
    [chunks |-> {LayerOfType(t) : t \in LayerTypes}
                \cup {CelChunk(0, k, 0) : k \in CelContents}
                \cup {UserDataChunk, ColorProfileChunk},
     max |-> MaxChunks, once |-> {}]

NextUnsupported ==
    \/ BeginFrame
    \/ EndChunks(UnsupportedFiles)
    \/ DispatchColorProfile(UnsupportedFiles)
    \/ DispatchLayer(UnsupportedFiles)
    \/ DispatchCel(UnsupportedFiles)
    \/ DispatchUserData(UnsupportedFiles)
    \/ Finish

SpecUnsupported == InitAsm /\ [][NextUnsupported]_vars

(* --------------------- the decoders run on their own ------------------- *)
InitDir ==
    /\ AsmStart("idle")
    /\ byte \in 0..ByteMax
    /\ animation_direction = NotCalled
    /\ frame_input = NoFrameInput
    /\ frame_result = FrameNotCalled
    /\ CallIdle

\* let animation_direction = AnimationDirection::from(animation_direction)
DecodeDirection ==
    /\ pc = "idle"
    /\ animation_direction = NotCalled
    /\ animation_direction' = AnimationDirectionFrom(byte)
    /\ UNCHANGED <<asmVars, byte, frame_input, frame_result, call, result>>

NextDir == DecodeDirection

SpecDir == InitDir /\ [][NextDir]_vars

\* The frames handed to parse_rawframe: the body holds any number of chunks,
\* the two count fields any counts.
FrameBody(held) == [i \in 1..held |-> <<"chunk", i>>]
FrameInputs ==
    [size_fits : BOOLEAN, magic : {FRAME_MAGIC_NUMBER, 0},
     word_count : 0..MaxChunks, duration : Durations,
     dword_count : 0..MaxChunks,
     body : {FrameBody(held) : held \in 0..MaxChunks}]

InitFrame ==
    /\ AsmStart("idle")
    /\ byte = 0
    /\ animation_direction = NotCalled
    /\ frame_input \in FrameInputs
    /\ frame_result = FrameNotCalled
    /\ CallIdle

CallParseRawFrame ==
    /\ pc = "idle"
    /\ frame_result = FrameNotCalled
    /\ frame_result' = ParseRawFrame(frame_input)
    /\ UNCHANGED <<asmVars, byte, animation_direction, frame_input, call, result>>

NextFrame == CallParseRawFrame

SpecFrame == InitFrame /\ [][NextFrame]_vars

\* The inputs handed to parse_frames: up to MaxFrames frames, each with a size
\* field the input holds and the chunks its count announces, so that a frame
\* fails on its magic number alone.
WholeFrames == {f \in FrameInputs : f.size_fits /\ f.dword_count <= Len(f.body)}
FramesInputs == UNION {[1..n -> WholeFrames] : n \in 0..MaxFrames}

InitFrames ==
    /\ AsmStart("idle")
    /\ byte = 0
    /\ animation_direction = NotCalled
    /\ frame_input = NoFrameInput
    /\ frame_result = FrameNotCalled
    /\ call \in [fn : {"parse_frames"}, input : FramesInputs]
    /\ result = NoResult

CallParseFrames ==
    /\ pc = "idle"
    /\ call.fn = "parse_frames"
    /\ result = NoResult
    /\ result' = [res |-> "returned", val |-> ParseFrames(call.input)]
    /\ UNCHANGED <<asmVars, byte, animation_direction, frame_input,
                   frame_result, call>>

NextFrames == CallParseFrames

SpecFrames == InitFrames /\ [][NextFrames]_vars

\* The images handed to the decompression: image.data is a zlib stream that
\* inflates to out_len bytes or is corrupt when the image is compressed, and
\* out_len raw bytes when it is not.
Streams == [kind : {"whole", "corrupt"}, out_len : 0..MaxOut]
ImageInputs ==
    [width : 0..MaxSide, height : 0..MaxSide, compressed : BOOLEAN,
     data : Streams]

InitInflate ==
    /\ AsmStart("idle")
    /\ byte = 0
    /\ animation_direction = NotCalled
    /\ frame_input = NoFrameInput
    /\ frame_result = FrameNotCalled
    /\ call \in [fn : {"images_decompressed", "decompress"}, image : ImageInputs]
    /\ call.fn = "decompress" => call.image.compressed
    /\ ~call.image.compressed => call.image.data.kind = "whole"
    /\ result = NoResult

\* One image through the decompression of AsepriteFile::new.
CallDecompressedImage ==
    /\ pc = "idle"
    /\ call.fn = "images_decompressed"
    /\ result = NoResult
    /\ result' = DecompressedImage(call.image)
    /\ UNCHANGED <<asmVars, byte, animation_direction, frame_input,
                   frame_result, call>>

\* load_image of the older loader on a compressed RGBA image:
\* decompress(image.data, target) with target cut to width * height * 4.
CallDecompress ==
    /\ pc = "idle"
    /\ call.fn = "decompress"
    /\ result = NoResult
    /\ result' = Decompress(call.image.data,
                            call.image.width * call.image.height * 4)
    /\ UNCHANGED <<asmVars, byte, animation_direction, frame_input,
                   frame_result, call>>

NextInflate == CallDecompressedImage \/ CallDecompress

SpecInflate == InitInflate /\ [][NextInflate]_vars

\* The pixels of an indexed image: indices in and just past the populated
\* range of the palette, and the largest byte.
PixelBytes == 0..MaxPopulated \cup {ByteMax}
IndexedSources == UNION {[1..n -> PixelBytes] : n \in 0..MaxPixels}

InitIndexed ==
    /\ AsmStart("idle")
    /\ byte = 0
    /\ animation_direction = NotCalled
    /\ frame_input = NoFrameInput
    /\ frame_result = FrameNotCalled
    /\ call \in [fn : {"indexed_to_rgba"}, source : IndexedSources,
                 palette : {PaletteOf(n) : n \in 0..MaxPopulated},
                 fits : BOOLEAN]
    /\ result = NoResult

\* indexed_to_rgba on a target of source.len() * 4 bytes (fits) or one of
\* four bytes more.
CallIndexedToRgba ==
    /\ pc = "idle"
    /\ call.fn = "indexed_to_rgba"
    /\ result = NoResult
    /\ result' = IndexedToRgba(call.source, call.palette,
                     Len(call.source) * 4 + (IF call.fits THEN 0 ELSE 4))
    /\ UNCHANGED <<asmVars, byte, animation_direction, frame_input,
                   frame_result, call>>

NextIndexed == CallIndexedToRgba

SpecIndexed == InitIndexed /\ [][NextIndexed]_vars

\* The calls of blend_channel looked at: every first and second byte at full
\* alpha in mode Normal, every first byte and alpha in a mode the match does
\* not name, and the bytes at the ends and in the middle of the range in
\* every mode.
SampleBytes == {0, 1, 127, 128, 254, ByteMax}
BlendCall(f, s, a, m) ==
    [fn |-> "blend_channel", first |-> f, second |-> s, alpha |-> a,
     blend_mode |-> m]
OpaqueNormalCalls ==
    {BlendCall(f, x, ByteMax, "Normal") : f \in 0..ByteMax, x \in 0..ByteMax}
UnlistedCalls ==
    {BlendCall(f, x, a, "Unlisted") :
       f \in 0..ByteMax, x \in {0, ByteMax}, a \in 0..ByteMax}
SampleCalls ==
    {BlendCall(f, x, a, m) :
       f \in SampleBytes, x \in SampleBytes, a \in SampleBytes, m \in BlendModes}

InitBlend ==
    /\ AsmStart("idle")
    /\ byte = 0
    /\ animation_direction = NotCalled
    /\ frame_input = NoFrameInput
    /\ frame_result = FrameNotCalled
    /\ \/ call \in OpaqueNormalCalls
       \/ call \in UnlistedCalls
       \/ call \in SampleCalls
    /\ result = NoResult

CallBlendChannel ==
    /\ pc = "idle"
    /\ call.fn = "blend_channel"
    /\ result = NoResult
    /\ result' = [res |-> "returned",
                  val |-> BlendChannel(call.first, call.second, call.alpha,
                                       call.blend_mode)]
    /\ UNCHANGED <<asmVars, byte, animation_direction, frame_input,
                   frame_result, call>>

NextBlend == CallBlendChannel

SpecBlend == InitBlend /\ [][NextBlend]_vars

\* total_alpha for every alpha of a cel pixel and every opacity of a layer.
InitAlpha ==
    /\ AsmStart("idle")
    /\ byte = 0
    /\ animation_direction = NotCalled
    /\ frame_input = NoFrameInput
    /\ frame_result = FrameNotCalled
    /\ call \in [fn : {"total_alpha"}, a : 0..ByteMax, opacity : 0..ByteMax]
    /\ result = NoResult

CallTotalAlpha ==
    /\ pc = "idle"
    /\ call.fn = "total_alpha"
    /\ result = NoResult
    /\ result' = [res |-> "returned", val |-> TotalAlpha(call.a, call.opacity)]
    /\ UNCHANGED <<asmVars, byte, animation_direction, frame_input,
                   frame_result, call>>

NextAlpha == CallTotalAlpha

SpecAlpha == InitAlpha /\ [][NextAlpha]_vars

(* ----------------------- compositing a loaded model -------------------- *)
\* A layer as AsepriteFile::new pushes it.
LayerWith(visible, text, opacity, blend_mode) ==
    [chunk |-> [LayerChunk EXCEPT !.visible = visible, !.opacity = opacity,
                                  !.blend_mode = blend_mode],
     user_data |-> IF text = NoText THEN DefaultUserData
                   ELSE [UserDataChunk EXCEPT !.text = text],
     parameters |-> ParseTextAsLayerParameters(text)]

\* An image one row high, all of one colour, as the store holds it.
ImageWith(width, colour) ==
    [ImageOf(Blank) EXCEPT !.width = width, !.height = 1,
                           !.pixels = [i \in 1..width |-> colour]]

\* A cel of layer l with image k of the store, x pixels from the left edge.
CelWith(l, k, cx) ==
    [chunk |-> [CelChunk(l, "Image", 0) EXCEPT !.x = cx],
     user_data |-> DefaultUserData, image_index |-> k]

OpaqueRed == <<255, 0, 0, 255>>
Colours == {OpaqueRed, <<10, 20, 30, 128>>}

\* The loaded models looked at: a Normal layer of opacity 255 under an
\* Addition layer of opacity 128, each visible or not, the lower with or
\* without a parameter in its user data; an image of 1 pixel and one of 2; one
\* frame of up to MaxCels cels.
ModelLayers ==
    {<<LayerWith(v0, t0, 255, "Normal"), LayerWith(v1, NoText, 128, "Addition")>> :
       v0 \in BOOLEAN, v1 \in BOOLEAN, t0 \in {NoText, "Invisible", "hitbox"}}
ModelImages == {<<ImageWith(1, OpaqueRed), ImageWith(2, c)>> : c \in Colours}
CelKinds == {CelWith(l, k, cx) : l \in 0..1, k \in 0..1, cx \in 0..1}
ModelFrames ==
    {<<[duration |-> 100, cells |-> cs]>> :
       cs \in UNION {[1..n -> CelKinds] : n \in 0..MaxCels}}

\* The state AsepriteFile::new leaves when it returns Ok(Self { .. }).
InitComposite ==
    /\ pc = "done"
    /\ status = "ok"
    /\ error = <<"none">>
    /\ header = [color_depth |-> "Rgba", width |-> CanvasSize.width,
                 height |-> CanvasSize.height]
    /\ rawFrames = <<>>
    /\ pos = 0
    /\ closed = FALSE
    /\ chunk = Blank
    /\ color_profile = ColorProfileChunk
    /\ palette = <<>>
    /\ layers \in ModelLayers
    /\ frames \in ModelFrames
    /\ images \in ModelImages
    /\ tags = <<>>
    /\ image_map = EmptyMap
    /\ ParseIdle

\* The functions below are called twice at most.
Nth == IF call.fn = "none" THEN 0 ELSE call.nth
Callable == pc = "done" /\ status = "ok" /\ Nth < 2
Called(fn) ==
    /\ call' = [fn |-> fn, frame_index |-> 0, nth |-> Nth + 1]
    /\ UNCHANGED <<asmVars, byte, animation_direction, frame_input, frame_result>>

\* file.combined_frame_image(0)
CallCombinedFrameImage ==
    /\ Callable
    /\ result' = CombinedFrameImage(frames, layers, images, 0,
                     Canvas(header.width, header.height, result))
    /\ Called("combined_frame_image")

\* file.frames[0].combined_frame_image_cropped(&file.layers, &file.images_decompressed)
CallCombinedFrameImageCropped ==
    /\ Callable
    /\ result' = CombinedFrameImageCropped(frames[1], layers, images)
    /\ Called("combined_frame_image_cropped")

\* file.frames[0].hitboxes(&file.layers, &file.images_decompressed)
CallHitboxes ==
    /\ Callable
    /\ result' = HitboxesOf(frames[1].cells, layers, images)
    /\ Called("hitboxes")

NextComposite ==
    \/ CallCombinedFrameImage
    \/ CallCombinedFrameImageCropped
    \/ CallHitboxes

SpecComposite == InitComposite /\ [][NextComposite]_vars

(* ------------------- from_ase on a loaded model ------------------------ *)
\* A frame of the given duration holding the given cels.
FrameWith(duration, cells) == [duration |-> duration, cells |-> cells]

\* Up to MaxFrames frames, frame i lasting 100 * i ms, of the given cels.
FramesOf(cellLists) ==
    UNION {{[i \in 1..n |-> FrameWith(100 * i, cs[i])] : cs \in [1..n -> cellLists]}
             : n \in 1..MaxFrames}

\* The state AsepriteFile::new leaves when it returns Ok(Self { .. }), and a
\* packer of some room.
InitOutput(lays, fs, ts, rooms) ==
    /\ pc = "done"
    /\ status = "ok"
    /\ error = <<"none">>
    /\ header = [color_depth |-> "Rgba", width |-> CanvasSize.width,
                 height |-> CanvasSize.height]
    /\ rawFrames = <<>>
    /\ pos = 0
    /\ closed = FALSE
    /\ chunk = Blank
    /\ color_profile = ColorProfileChunk
    /\ palette = <<>>
    /\ layers \in lays
    /\ frames \in fs
    /\ images \in ModelImages
    /\ tags \in ts
    /\ image_map = EmptyMap
    /\ byte = 0
    /\ animation_direction = NotCalled
    /\ frame_input = NoFrameInput
    /\ frame_result = FrameNotCalled
    /\ call \in [fn : {"from_ase"}, base_name : {"s"}, room : rooms]
    /\ result = NoResult

\* AnimationSet::from_ase(file, base_name, &mut packer)
CallFromAse ==
    /\ pc = "done" /\ status = "ok"
    /\ call.fn = "from_ase"
    /\ result = NoResult
    /\ result' = FromAse(header, frames, layers, images, tags,
                         call.base_name, call.room)
    /\ UNCHANGED <<asmVars, byte, animation_direction, frame_input,
                   frame_result, call>>

NextOutput == CallFromAse

\* Frames of no cel or one, on layers of which the lower may carry a
\* parameter; no tag or one.
DedupLayers ==
    {<<LayerWith(TRUE, t0, 255, "Normal"), LayerWith(TRUE, NoText, 128, "Addition")>> :
       t0 \in {NoText, "Invisible", "hitbox"}}
InitDedup ==
    InitOutput(DedupLayers, FramesOf({<<>>} \cup {<<c>> : c \in CelKinds}),
               {<<>>, <<TagWith("a", 0, 0)>>}, 0..MaxFrames)

SpecDedup == InitDedup /\ [][NextOutput]_vars

\* Up to MaxTags tags of two names and any range of 0..MaxTagFrame, over
\* frames that are empty or hold one cel.
OutputTags ==
    {TagWith(name, r[1], r[2]) :
       name \in {"a", "b"},
       r \in {r \in (0..MaxTagFrame) \X (0..MaxTagFrame) : r[1] <= r[2]}}
TagLists == UNION {[1..n -> OutputTags] : n \in 0..MaxTags}
InitAnimations ==
    InitOutput({<<LayerWith(TRUE, NoText, 255, "Normal")>>},
               FramesOf({<<>>, <<CelWith(0, 0, 0)>>, <<CelWith(0, 1, 1)>>}),
               TagLists, {MaxFrames})

SpecAnimations == InitAnimations /\ [][NextOutput]_vars

(* ----------------------- tl_offset_to_centered alone -------------------- *)
\* The sizes of the function's test, the sizes of its comment, and offsets
\* where an f32 is spaced 1/2 and 1 apart.
SpriteSizes == {1, 16, 17}
TlOffsets == {0, 3, 4194304, 8388608}
CanvasSizes == {0, 21, 22}

InitCentered ==
    /\ AsmStart("idle")
    /\ byte = 0
    /\ animation_direction = NotCalled
    /\ frame_input = NoFrameInput
    /\ frame_result = FrameNotCalled
    /\ call \in [fn : {"tl_offset_to_centered"},
                 tl_offset : TlOffsets \X TlOffsets,
                 sprite_size : SpriteSizes \X SpriteSizes,
                 canvas_size : CanvasSizes \X CanvasSizes]
    /\ result = NoResult

CallTlOffsetToCentered ==
    /\ pc = "idle"
    /\ call.fn = "tl_offset_to_centered"
    /\ result = NoResult
    /\ result' = [res |-> "returned",
                  off |-> TlOffsetToCentered(call.tl_offset, call.sprite_size,
                                             call.canvas_size)]
    /\ UNCHANGED <<asmVars, byte, animation_direction, frame_input,
                   frame_result, call>>

NextCentered == CallTlOffsetToCentered

SpecCentered == InitCentered /\ [][NextCentered]_vars

(* ----------------------------- load_image alone ------------------------ *)
\* Images of 1 to 65536 pixels, their data of the length an RGBA image of
\* 1, 2 or 16384 pixels takes or of none, targets likewise.
ImageSides == {1, 2, 128, 256}
ByteCounts == {0, 4, 8, 65536}
ColorDepths == {"Rgba", "Grayscale", "Indexed", "Unknown"}

InitLoadImage ==
    /\ AsmStart("idle")
    /\ byte = 0
    /\ animation_direction = NotCalled
    /\ frame_input = NoFrameInput
    /\ frame_result = FrameNotCalled
    /\ call \in [fn : {"load_image"},
                 image : [width : ImageSides, height : ImageSides,
                          compressed : BOOLEAN,
                          data : [kind : {"whole", "corrupt"}, out_len : ByteCounts]],
                 color_depth : ColorDepths,
                 has_palette : BOOLEAN,
                 target_len : ByteCounts]
    /\ result = NoResult

CallLoadImage ==
    /\ pc = "idle"
    /\ call.fn = "load_image"
    /\ result = NoResult
    /\ result' \in LoadImage(call.image, call.color_depth, call.has_palette,
                             call.target_len)
    /\ UNCHANGED <<asmVars, byte, animation_direction, frame_input,
                   frame_result, call>>

NextLoadImage == CallLoadImage

SpecLoadImage == InitLoadImage /\ [][NextLoadImage]_vars

(* ------------------------------ the claims ----------------------------- *)
RECURSIVE Concat(_)
Concat(ss) == IF ss = <<>> THEN <<>> ELSE Head(ss) \o Concat(Tail(ss))

IsPrefix(s, t) == Len(s) <= Len(t) /\ SubSeq(t, 1, Len(s)) = s

\* The chunks the while loops have taken off the file so far, in order.
YieldedChunks ==
    IF rawFrames = <<>> THEN <<>>
    ELSE Concat(SubSeq(rawFrames, 1, Len(rawFrames) - 1))
             \o SubSeq(rawFrames[Len(rawFrames)], 1, pos)

\* Every cel of the model, frame by frame.
AllCels == Concat([f \in 1..Len(frames) |-> frames[f].cells])

IsLayerChunk(c) == c.kind = "Layer"
IsCelChunk(c) == c.kind = "Cel"

\* The chunk that follows place src in its frame, as far as the file is read.
After(src) ==
    LET row == rawFrames[src[1] + 1]
    IN IF Len(row) > src[2] THEN row[src[2] + 1] ELSE EndOfChunks

\* What the trailing-association rule gives the entity decoded at src.
Trailing(src) ==
    IF After(src).kind = "UserData" THEN After(src) ELSE DefaultUserData

C1_State ==
    /\ [i \in 1..Len(layers) |-> layers[i].chunk]
           = SelectSeq(YieldedChunks, IsLayerChunk)
    /\ status \in {"running", "ok"} =>
           [i \in 1..Len(AllCels) |-> AllCels[i].chunk]
               = SelectSeq(YieldedChunks, IsCelChunk)
    /\ \A i \in 1..Len(layers) :
           layers[i].user_data = Trailing(layers[i].chunk.src)
    /\ \A i \in 1..Len(AllCels) :
           AllCels[i].user_data = Trailing(AllCels[i].chunk.src)

\* C1: every Layer and Cel chunk of a frame becomes an entity whose user data
\* is the chunk right after it in the same frame if and only if that chunk is
\* User Data, and is default-empty otherwise; a following chunk that is not
\* User Data is not taken off the stream: it is the chunk the next iteration
\* dispatches.
C1_TrailingAssociation ==
    /\ []C1_State
    /\ [][ (Running /\ Len(rawFrames[Len(rawFrames)]) > pos) =>
               chunk' = rawFrames[Len(rawFrames)][pos + 1] ]_vars

\* A layer followed by a cel followed by user data: the layer keeps the
\* default, the cel is dispatched and gets the user data.
C1_Witness ==
    /\ Len(layers) = 1 /\ Len(AllCels) = 1
    /\ layers[1].user_data = DefaultUserData
    /\ After(layers[1].chunk.src) = AllCels[1].chunk
    /\ AllCels[1].user_data.src = <<0, 3>>

IsTagsChunk(c) == c.kind = "Tags"

\* The chunks at places p+1 .. p+i of the frame of src = <<f, p>> are read
\* and are all User Data.
UserDataRun(src, i) ==
    LET row == rawFrames[src[1] + 1]
    IN /\ Len(row) >= src[2] + i
       /\ \A j \in 1..i : row[src[2] + j].kind = "UserData"

\* What the claim gives the model for the Tags chunk c: its tags in declared
\* order, the i-th with the i-th User Data chunk of the run after c.
TagsFor(c) ==
    [i \in 1..Len(c.tags) |->
        [chunk |-> ParseTag(c.tags[i]).tag,
         user_data |-> IF UserDataRun(c.src, i)
                       THEN rawFrames[c.src[1] + 1][c.src[2] + i]
                       ELSE DefaultUserData]]

C2_State ==
    LET cs == SelectSeq(YieldedChunks, IsTagsChunk)
    IN tags = Concat([k \in 1..Len(cs) |-> TagsFor(cs[k])])

\* C2: a Tags chunk of n tags followed by k consecutive User Data chunks adds
\* its n tags to the model in declared order, the i-th with the i-th of those
\* User Data chunks for i <= min(n, k) and with default-empty user data for
\* i > k; the tags the model already held keep their place and user data.
C2_TagsTakeUserDataInOrder ==
    []C2_State /\ [][IsPrefix(tags, tags')]_vars

\* Two tags, one User Data chunk, then a chunk of another kind.
C2_Witness ==
    /\ Len(tags) = 2
    /\ tags[1].chunk.name = TagName(1) /\ tags[2].chunk.name = TagName(2)
    /\ tags[1].user_data.src = <<0, 2>>
    /\ tags[2].user_data = DefaultUserData
    /\ Len(rawFrames[1]) = 3 /\ rawFrames[1][3].kind = "Slice"

\* C3: in a loaded model, looking a cel's layer up in the cel's frame gives
\* that cel, with the user data attached to it, and a layer without a cel in
\* the frame gives None.
C3_LookupFindsEveryCel ==
    status = "ok" =>
        \A f \in 1..Len(frames) :
            /\ \A i \in 1..Len(frames[f].cells) :
                   \A r \in CellAtLayerIndex(frames[f],
                                             frames[f].cells[i].chunk.layer_index) :
                       r.some /\ r.cel = frames[f].cells[i]
            /\ \A l \in 0..MaxLayer :
                   (\A i \in 1..Len(frames[f].cells) :
                        frames[f].cells[i].chunk.layer_index # l)
                   => \A r \in CellAtLayerIndex(frames[f], l) : ~r.some

IsImageCel(c) == c.kind = "Cel" /\ c.content = "Image"

\* The image store against the file: one image for each direct-image cel, in
\* stream order; a linked cel shares the index of a direct-image cel that
\* stands earlier in the stream, in the frame it names and on its own layer.
C4_State ==
    /\ LET direct == SelectSeq(YieldedChunks, IsImageCel)
       IN images = [i \in 1..Len(direct) |-> ImageOf(direct[i])]
    /\ \A f \in 1..Len(frames) : \A i \in 1..Len(frames[f].cells) :
         LET cel == frames[f].cells[i]
             m == cel.chunk.frame_position + 1
         IN cel.chunk.content = "LinkedCel" =>
              /\ m <= Len(frames)
              /\ \E j \in 1..Len(frames[m].cells) :
                   LET o == frames[m].cells[j]
                   IN /\ o.chunk.content = "Image"
                      /\ o.chunk.layer_index = cel.chunk.layer_index
                      /\ o.image_index = cel.image_index
                      /\ images[o.image_index + 1] = ImageOf(o.chunk)
                      /\ (m < f \/ j < i)

\* C4: linked cels never duplicate images: the image store holds exactly one
\* entry for each Cel chunk with direct Image content, in stream order, and
\* only ever grows at its end; every linked cel has the image index of the
\* direct-image cel of the frame and layer it refers to.
C4_LinkedCelsShareImages ==
    []C4_State /\ [][IsPrefix(images, images')]_vars

\* Frame 0 holds an image on layer 1, frame 1 a cel linked to it.
C4_Witness ==
    /\ Len(frames) = 2 /\ Len(images) = 1
    /\ Len(frames[1].cells) = 1 /\ Len(frames[2].cells) = 1
    /\ frames[1].cells[1].chunk.content = "Image"
    /\ frames[2].cells[1].chunk.content = "LinkedCel"
    /\ frames[2].cells[1].chunk.layer_index = 1
    /\ frames[2].cells[1].image_index = frames[1].cells[1].image_index

\* C5: a linked cel whose (frame_position, layer_index) has no image recorded
\* makes the load return an error.
C5_UnresolvedLinkIsError ==
    (/\ pc = "done"
     /\ chunk.kind = "Cel" /\ chunk.content = "LinkedCel"
     /\ MapKey(chunk.frame_position, chunk.layer_index) \notin DOMAIN image_map)
    => status = "err"

\* The step took a chunk of kind k off the file.
Dispatched(k) == YieldedChunks' # YieldedChunks /\ chunk'.kind = k

\* C6: a Palette chunk with last_index < first_index or with
\* last_index - first_index + 1 # size is rejected by parse_palette_chunk with
\* the InvalidPaletteRange error and no PaletteChunk comes of it (the load
\* fails with that error, the palette untouched); a chunk that is accepted
\* has exactly size entries and last_index - first_index + 1 = size.
C6_PaletteRangeCheck ==
    chunk.kind = "Palette" =>
        LET violated == \/ chunk.last_index < chunk.first_index
                        \/ chunk.last_index - chunk.first_index + 1 # chunk.size
        IN /\ violated =>
                /\ status = "err" /\ error = VerifyError
                /\ palette = <<>>
           /\ \A r \in ParsePaletteChunk(chunk) :
                  r.res = "ok" => Len(r.entries) = chunk.size /\ ~violated

IsPaletteChunk(c) == c.kind = "Palette"

\* The Palette chunk c holds an entry for the palette index j (from 0).
Covers(c, j) == c.first_index <= j /\ j < c.first_index + c.size

\* The palette against the Palette chunks taken off the file so far.
C7_State ==
    LET ps == SelectSeq(YieldedChunks, IsPaletteChunk)
    IN /\ \A k \in 1..Len(ps) : Len(palette) >= ps[k].first_index + ps[k].size
       /\ \A j \in 0..(Len(palette) - 1) :
            LET cov == {k \in 1..Len(ps) : Covers(ps[k], j)}
                last == CHOOSE k \in cov : \A o \in cov : o <= k
            IN IF cov = {} THEN palette[j + 1] = ZeroColor
               ELSE palette[j + 1]
                        = EntryColor(ps[last].src, j - ps[last].first_index + 1)

\* C7: after any sequence of Palette chunks the palette colour at every index
\* j is entry (j - first_index) of the last chunk whose range
\* [first_index, first_index + entry_count) contains j; an index the chunk of
\* a step does not cover keeps the value it had; the palette never shrinks
\* and is at least as long as the largest first_index + entry_count seen.
C7_PaletteMerging ==
    /\ []C7_State
    /\ [][ /\ Len(palette') >= Len(palette)
           /\ \A j \in 0..(Len(palette) - 1) :
                  ~(Dispatched("Palette") /\ Covers(chunk', j))
                      => palette'[j + 1] = palette[j + 1] ]_vars

\* Three entries from index 0, then two from index 1: the first keeps the
\* colour of the first chunk, the other two have those of the second.
C7_Witness ==
    /\ rawFrames # <<>> /\ Len(rawFrames[1]) = 2 /\ pos = 2
    /\ rawFrames[1][1].kind = "Palette" /\ rawFrames[1][1].size = 3
    /\ rawFrames[1][2].kind = "Palette" /\ rawFrames[1][2].first_index = 1
    /\ palette = <<EntryColor(<<0, 1>>, 1), EntryColor(<<0, 2>>, 1),
                   EntryColor(<<0, 2>>, 2)>>

\* The tags of the raw Tags chunk c whose from_frame is past their to_frame.
Reversed(c) ==
    {i \in 1..Len(c.tags) : c.tags[i].from_frame > c.tags[i].to_frame}

\* C8: parse_tag fails with InvalidFrameRange(from, to) whenever from_frame >
\* to_frame; parse_tags_chunk fails with that error on a Tags chunk holding
\* such a tag, the assembler goes no further and none of the chunk's tags
\* reaches the model, while a chunk holding none adds all its tags; every tag
\* of the model has from <= to.
C8_TagFrameRange ==
    [][ /\ Dispatched("Tags") =>
              /\ \A i \in Reversed(chunk') :
                     LET raw == chunk'.tags[i]
                     IN /\ ~ParseTag(raw).ok
                        /\ ParseTag(raw).err
                               = <<"InvalidFrameRange", raw.from_frame, raw.to_frame>>
              /\ IF Reversed(chunk') = {}
                 THEN /\ status' = "running"
                      /\ Len(tags') = Len(tags) + Len(chunk'.tags)
                 ELSE /\ ~ParseTagsChunk(chunk').ok
                      /\ \E i \in Reversed(chunk') :
                             ParseTagsChunk(chunk').err
                                 = <<"InvalidFrameRange",
                                     chunk'.tags[i].from_frame,
                                     chunk'.tags[i].to_frame>>
                      /\ status' # "running"
                      /\ tags' = tags
        /\ \A i \in 1..Len(tags') :
               tags'[i].chunk.frames[1] <= tags'[i].chunk.frames[2] ]_vars

\* A Tags chunk whose first tag is in order and whose second is reversed: the
\* load has failed and the model holds neither.
C8_Witness ==
    /\ status = "err" /\ error = <<"InvalidFrameRange", 1, 0>>
    /\ chunk.kind = "Tags" /\ Len(chunk.tags) = 2
    /\ chunk.tags[1].from_frame = 0 /\ chunk.tags[1].to_frame = 1
    /\ chunk.tags[2].from_frame = 1 /\ chunk.tags[2].to_frame = 0
    /\ tags = <<>>

\* C9: AnimationDirection::from is total and keeps the raw value: the bytes
\* 0, 1, 2, 3 give Forward, Reverse, PingPong, PingPongReverse and every byte
\* b >= 4 gives Unknown(b).
C9_DirectionKeepsByte ==
    animation_direction # NotCalled =>
        /\ byte = 0 => animation_direction = <<"Forward">>
        /\ byte = 1 => animation_direction = <<"Reverse">>
        /\ byte = 2 => animation_direction = <<"PingPong">>
        /\ byte = 3 => animation_direction = <<"PingPongReverse">>
        /\ byte >= 4 => animation_direction = <<"Unknown", byte>>

\* C10: when the 32-bit chunk count of a frame is not zero, parse_rawframe
\* takes exactly that many chunks off the frame body, whatever the 16-bit
\* count says; the two counts disagreeing fails nothing: the frame fails only
\* when its body holds fewer chunks than the 32-bit count.
C10_DwordCountDrivesDispatch ==
    (/\ frame_result # FrameNotCalled
     /\ frame_input.size_fits
     /\ frame_input.magic = FRAME_MAGIC_NUMBER
     /\ frame_input.dword_count # 0)
    => IF frame_input.dword_count <= Len(frame_input.body)
       THEN /\ frame_result.ok
            /\ frame_result.chunks
                   = SubSeq(frame_input.body, 1, frame_input.dword_count)
       ELSE ~frame_result.ok

\* A frame of three chunks whose counts say 3 (16-bit) and 2 (32-bit): two
\* chunks are taken.
C10_Witness ==
    /\ frame_result.ok
    /\ frame_input.word_count = 3 /\ frame_input.dword_count = 2
    /\ Len(frame_input.body) = 3
    /\ Len(frame_result.chunks) = 2

\* C11: a frame whose magic number is not 0xF1FA makes parse_frames fail with
\* the InvalidFrameMagic error and return no frame list, be the frame the
\* first of the file or a later one.
BadMagic(input) ==
    \E i \in 1..Len(input) :
        /\ input[i].magic # FRAME_MAGIC_NUMBER
        /\ \A j \in 1..(i - 1) : input[j].magic = FRAME_MAGIC_NUMBER
C11_BadMagicFailsAlike ==
    (result.res = "returned" /\ BadMagic(call.input))
        => /\ ~result.val.ok
           /\ result.val.err = TagError
           /\ result.val.frames = <<>>

\* C12: a file with a Layer chunk of layer type Group ends in a load failure:
\* no model comes of a file in which a group layer was read, be it with the
\* group taken as an ordinary layer or with the group left out.
IsGroupLayer(c) == c.kind = "Layer" /\ c.layer_type = "Group"
C12_GroupLayerFails ==
    (\E i \in 1..Len(YieldedChunks) : IsGroupLayer(YieldedChunks[i]))
        => status # "ok"

\* C13: a cel of content CompressedTilemap makes the load return Err with a
\* message that the content is not implemented; the load gives no model and
\* does not panic.
C13_CompressedTilemapIsError ==
    (pc = "done" /\ chunk.kind = "Cel" /\ chunk.content = "CompressedTilemap")
        => status = "err"

\* C14: the decompression of a compressed image succeeds only when inflating
\* the stream gives exactly width * height * bytes-per-pixel bytes: a stream
\* that ends before the buffer is full and a stream with more output than the
\* buffer holds both give a decode error.
C14_ExactFill ==
    (result.res = "ok" /\ call.image.compressed)
        => /\ call.image.data.kind = "whole"
           /\ call.image.data.out_len = result.len

\* C15: an indexed image with a pixel byte outside the populated range of the
\* palette fails to convert with InvalidImageData; the byte is never given a
\* default colour and the conversion never panics.
OutsidePalette ==
    \E k \in 1..Len(call.source) : call.source[k] >= call.palette.populated
C15_OutsidePaletteIsError ==
    (result.res # "none" /\ call.fn = "indexed_to_rgba" /\ OutsidePalette)
        => result.res = "err" /\ result.err = <<"InvalidImageData">>

\* C16: a conversion that succeeds gives exactly 4 bytes for each source byte,
\* and for pixel k (from 0) with an index i the palette holds, the bytes
\* 4k .. 4k + 3 are the red, green, blue and alpha of palette entry i.
C16_ExactLookup ==
    (call.fn = "indexed_to_rgba" /\ result.res = "ok")
        => /\ Len(result.target) = 4 * Len(call.source)
           /\ \A k \in 0..(Len(call.source) - 1) :
                LET i == call.source[k + 1]
                    c == call.palette.colors[i]
                IN i < call.palette.populated
                   => /\ result.target[4 * k + 1] = c.red
                      /\ result.target[4 * k + 2] = c.green
                      /\ result.target[4 * k + 3] = c.blue
                      /\ result.target[4 * k + 4] = c.alpha
C16_Witness ==
    /\ call.fn = "indexed_to_rgba" /\ result.res = "ok"
    /\ call.source = <<1, 0>>
    /\ call.palette.populated = 2
    /\ result.target = <<5, 6, 7, 8, 1, 2, 3, 4>>

\* The f32 rounding errors cannot have changed the byte the call returned.
NoDrift ==
    RoundedBytes(Blended(call.first, call.second, call.alpha, call.blend_mode))
        = {result.val}

\* C19: blend_channel(first, second, 255, Normal) is second for every first
\* and second, with no floating-point drift; and a cel pixel of alpha 255 on a
\* layer of opacity 255 is blended at alpha 255, so that an opaque cel on such
\* a Normal layer replaces all four channels of the canvas.
C19_OpaqueNormalReplaces ==
    /\ TotalAlpha(ByteMax, ByteMax) = ByteMax
    /\ (/\ call.fn = "blend_channel" /\ result.res = "returned"
        /\ call.alpha = ByteMax /\ call.blend_mode = "Normal")
       => result.val = call.second /\ NoDrift
C19_Witness ==
    /\ call.fn = "blend_channel" /\ result.res = "returned"
    /\ call.alpha = ByteMax /\ call.blend_mode = "Normal"
    /\ call.first = 200 /\ call.second = 77
    /\ result.val = 77

\* C20: in a blend mode other than the nine the match names, blend_channel
\* returns first, whatever first, second and alpha are.
C20_UnlistedModeKeepsFirst ==
    (/\ call.fn = "blend_channel" /\ result.res = "returned"
     /\ call.blend_mode \notin NamedBlendModes)
    => result.val = call.first /\ NoDrift
C20_Witness ==
    /\ call.fn = "blend_channel" /\ result.res = "returned"
    /\ call.blend_mode = "Unlisted"
    /\ call.first = 77 /\ call.second = ByteMax /\ call.alpha = 128
    /\ result.val = 77

\* The cel lies on a layer whose visibility flag is on.
OnVisibleLayer(cel) ==
    /\ cel.chunk.layer_index < Len(layers)
    /\ layers[cel.chunk.layer_index + 1].chunk.visible

\* C17: combined_frame_image_cropped returns EmptyFrame, no image and no
\* other error, for a frame all of whose cels lie on layers with the
\* visibility flag off (and for a frame without cels); for a frame with a cel
\* on a visible layer it does not return EmptyFrame.
C17_EmptyFrameIffNothingVisible ==
    (call.fn = "combined_frame_image_cropped")
        => LET cells == frames[call.frame_index + 1].cells
               empty == result.res = "err" /\ result.err = <<"EmptyFrame">>
           IN empty <=> (\A i \in 1..Len(cells) : ~OnVisibleLayer(cells[i]))

\* The fields of the Sprite Model.
spriteModel == <<header, color_profile, palette, layers, frames, images, tags>>

C21_EffectiveAlpha ==
    (call.fn = "total_alpha" /\ result.res = "returned")
        => LET a == call.a
               o == call.opacity
               t == result.val
           IN /\ a * o < U16Range
              /\ ByteMax * t <= a * o /\ a * o < ByteMax * (t + 1)
              /\ 0 <= t /\ t <= Min(a, o)
              /\ t = ByteMax => (a = ByteMax /\ o = ByteMax)
              /\ (a = 0 \/ o = 0) => t = 0
C21_Witness ==
    /\ call.fn = "total_alpha" /\ result.res = "returned"
    /\ call.a = 128 /\ call.opacity = 200
    /\ result.val = 100

\* The cels of a frame that lie on a layer carrying the hitbox parameter, in
\* the order of the frame.
HitboxCels(cells, lays) ==
    SelectSeq(cells, LAMBDA cel :
        "Hitbox" \in lays[cel.chunk.layer_index + 1].parameters)

\* C22: hitboxes returns, in cel order, one Hitbox for each cel whose layer
\* carries the hitbox parameter, with offset (cel.x, cel.y), size the
\* dimensions of the cel's image and layer_id the cel's layer index.
C22_HitboxOfEachHitboxCel ==
    (call.fn = "hitboxes" /\ result.res = "ok")
        => LET cels == HitboxCels(frames[1].cells, layers)
           IN /\ Len(result.out) = Len(cels)
              /\ \A i \in 1..Len(cels) :
                    LET cel == cels[i]
                        img == images[cel.image_index + 1]
                    IN /\ result.out[i].offset = <<cel.chunk.x, cel.chunk.y>>
                       /\ result.out[i].size = <<img.width, img.height>>
                       /\ result.out[i].layer_id = cel.chunk.layer_index

\* The cropped image of frame i of the model (counted from 1), and whether
\* no frame before it produces the same image.
CroppedOf(i) == CombinedFrameImageCropped(frames[i], layers, images)
FirstOfImage(i) ==
    /\ CroppedOf(i).res = "ok"
    /\ \A j \in 1..(i - 1) :
          CroppedOf(j).res = "ok" => CroppedOf(j).img # CroppedOf(i).img

\* C23: when from_ase returns Ok, the packer was handed each distinct cropped
\* image once, under the name of the first frame producing it and in frame
\* order; a frame has no image id exactly when its cropped image is
\* EmptyFrame; a frame's image id records the frame's own displacement; and
\* two frames carry the same image_ref exactly when their cropped images are
\* equal.
C23_EachImagePackedOnce ==
    (call.fn = "from_ase" /\ result.res = "ok")
        => LET fr == result.anim_frames
               firsts == SelectSeq([i \in 1..Len(frames) |-> i], FirstOfImage)
               Drawn == {i \in 1..Len(frames) : CroppedOf(i).res = "ok"}
           IN /\ Len(fr) = Len(frames)
              /\ result.packed =
                    [k \in 1..Len(firsts) |->
                       <<ImgRef(call.base_name, firsts[k] - 1),
                         CroppedOf(firsts[k]).img>>]
              /\ \A i \in 1..Len(frames) :
                    /\ (fr[i].image_ids = <<>>) <=> (i \notin Drawn)
                    /\ i \notin Drawn => CroppedOf(i).err = <<"EmptyFrame">>
              /\ \A i \in Drawn :
                    fr[i].image_ids[1].tl_offset
                        = <<CroppedOf(i).displacement_x, CroppedOf(i).displacement_y>>
              /\ \A i \in Drawn : \A j \in Drawn :
                    (fr[i].image_ids[1].image_ref = fr[j].image_ids[1].image_ref)
                        <=> (CroppedOf(i).img = CroppedOf(j).img)
C23_Witness ==
    /\ call.fn = "from_ase" /\ result.res = "ok"
    /\ Len(frames) = 2
    /\ Len(result.packed) = 1
    /\ \A i \in 1..2 : result.anim_frames[i].image_ids # <<>>
    /\ result.anim_frames[1].image_ids[1].image_ref
           = result.anim_frames[2].image_ids[1].image_ref
    /\ result.anim_frames[1].image_ids[1].tl_offset
           # result.anim_frames[2].image_ids[1].tl_offset

\* A tag of the model whose range reaches past the last frame.
PastLastFrame(t) == t.chunk.frames[2] >= Len(frames)

\* C24: from_ase never panics, its result is an error when a tag's range
\* reaches past the last frame, and when it returns Ok every tag [from, to] of
\* the model has under its name the AnimFrames of frames from..to in order,
\* to - from + 1 of them, with the durations of the model's frames.
C24_AnimationsByTag ==
    (call.fn = "from_ase" /\ result.res # "none")
        => /\ result.res # "panic"
           /\ (\E i \in 1..Len(tags) : PastLastFrame(tags[i]))
                 => result.res = "err"
           /\ result.res = "ok" =>
                 \A i \in 1..Len(tags) :
                    LET t == tags[i]
                        from == t.chunk.frames[1]
                        to == t.chunk.frames[2]
                    IN /\ t.chunk.name \in DOMAIN result.animations
                       /\ LET a == result.animations[t.chunk.name]
                          IN /\ Len(a.frames) = to - from + 1
                             /\ a.frames = SubSeq(result.anim_frames, from + 1, to + 1)
                             /\ \A k \in 1..Len(a.frames) :
                                   a.frames[k].duration = frames[from + k].duration

\* left_top_pos of the function's test on one axis, in halves:
\* off + sprite as f32 / 2.0.
LeftTopPos(off, sprite) == RoundF32(off + HalfOf(AsF32(sprite)))

\* C25: for every canvas size, sprite size and top-left offset, on each axis
\* off + sprite / 2 is a whole number, equal to
\* (canvas + canvas mod 2) / 2 - tl_offset.
C25_NoHalfPixelVertices ==
    (call.fn = "tl_offset_to_centered" /\ result.res = "returned")
        => \A axis \in 1..2 :
              LET left_top == LeftTopPos(result.off[axis], call.sprite_size[axis])
                  canvas == call.canvas_size[axis]
              IN /\ (left_top % 2) = 0
                 /\ left_top = (canvas + (canvas % 2)) - 2 * call.tl_offset[axis]

\* Below 2^22 every value the function computes is a multiple of 1/2 of
\* magnitude under 2^23, which an f32 holds exactly.
ExactBelow == 4194304

\* C25, amended: for every canvas size, sprite size and top-left offset below
\* 2^22, on each axis off + sprite / 2 is a whole number, equal to
\* (canvas + canvas mod 2) / 2 - tl_offset.
C25_NoHalfPixelBelowLimit ==
    (call.fn = "tl_offset_to_centered" /\ result.res = "returned")
        => \A axis \in 1..2 :
              LET left_top == LeftTopPos(result.off[axis], call.sprite_size[axis])
                  canvas == call.canvas_size[axis]
              IN (/\ canvas < ExactBelow
                  /\ call.sprite_size[axis] < ExactBelow
                  /\ call.tl_offset[axis] < ExactBelow)
                     => /\ (left_top % 2) = 0
                        /\ left_top = (canvas + (canvas % 2)) - 2 * call.tl_offset[axis]
C25_Witness ==
    /\ call.fn = "tl_offset_to_centered" /\ result.res = "returned"
    /\ call.canvas_size = <<21, 22>>
    /\ call.sprite_size = <<16, 17>>
    /\ call.tl_offset = <<3, 0>>
    /\ result.off = <<0, 5>>

\* A transparent buffer of the given size with img pasted at (dx, dy).
Pasted(img, dx, dy, width, height) ==
    [width |-> width, height |-> height,
     pixels |-> [i \in 1..(width * height) |->
                   LET px == ((i - 1) % width) - dx
                       py == ((i - 1) \div width) - dy
                   IN IF px >= 0 /\ px < img.width /\ py >= 0 /\ py < img.height
                      THEN PixelAt(img, px, py)
                      ELSE Transparent]]

\* C26: when combined_frame_image_cropped returns an image for a frame,
\* combined_frame_image returns for that frame the image pasted at
\* (displacement_x, displacement_y) onto a transparent buffer of the canvas's
\* size.
C26_CroppedAgreesWithFull ==
    (call.fn = "combined_frame_image_cropped" /\ result.res = "ok")
        => LET full == CombinedFrameImage(frames, layers, images, call.frame_index,
                           NewImage(header.width, header.height))
           IN /\ full.res = "ok"
              /\ full.img = Pasted(result.img, result.displacement_x,
                                   result.displacement_y,
                                   header.width, header.height)

\* C27: combined_frame_image and combined_frame_image_cropped return a
\* result for every frame of a loaded model: no coordinate they compute lies
\* outside the buffer, and neither panics.
C27_CompositingStaysInBuffer ==
    (call.fn \in {"combined_frame_image", "combined_frame_image_cropped"}
       /\ result.res # "none")
        => result.res # "panic"

\* The Palette chunk c keeps the stated invariant and holds the entries it
\* declares.
ValidPaletteChunk(c) ==
    /\ c.first_index < c.size
    /\ c.last_index >= c.first_index
    /\ c.last_index - c.first_index + 1 = c.size
    /\ Len(c.entries) = c.size

\* C28: a Palette chunk with first_index < size, last_index >= first_index
\* and last_index - first_index + 1 = size that holds size entries is
\* accepted by parse_palette_chunk, whatever its first_index, with that
\* first_index and its size entries, and the load does not fail on it.
C28_ValidPaletteChunkAccepted ==
    (chunk.kind = "Palette" /\ ValidPaletteChunk(chunk))
        => /\ ~(status = "err" /\ error = VerifyError)
           /\ \A r \in ParsePaletteChunk(chunk) :
                 /\ r.res = "ok"
                 /\ r.first_index = chunk.first_index
                 /\ r.entries = [i \in 1..chunk.size |->
                                   [color |-> EntryColor(chunk.src, i)]]

\* C29: when the 32-bit chunk count of a frame is 0, parse_rawframe takes as
\* many chunks off the frame body as the 16-bit count declares: a frame
\* whose body holds the chunks the 16-bit count declares yields them all.
C29_LegacyCountFallback ==
    (/\ frame_result # FrameNotCalled
     /\ frame_input.size_fits
     /\ frame_input.magic = FRAME_MAGIC_NUMBER
     /\ frame_input.dword_count = 0
     /\ frame_input.word_count <= Len(frame_input.body))
    => /\ frame_result.ok
       /\ frame_result.chunks
              = SubSeq(frame_input.body, 1, frame_input.word_count)

\* C30: load_image works its byte counts out as the mathematical values,
\* without 16-bit wrap-around: it does not panic on the product, and it
\* returns TargetBufferTooSmall exactly when the target is shorter than
\* width * height * 4 bytes.
C30_SizesDoNotOverflow ==
    (call.fn = "load_image" /\ result.res # "none")
        => LET needed == call.image.width * call.image.height * 4
           IN /\ result # Panic(<<"attempt to multiply with overflow">>)
              /\ (result = LoadError("TargetBufferTooSmall"))
                    <=> (call.target_len < needed)

====
